---- MODULE Spec2Model ----
(***************************************************************************)
(* A model of py-Asterisk's Manager session (src/Asterisk/Manager.py):     *)
(* banner check and login, action writing, response correlation through    *)
(* the response buffer, event dispatch and the list-action pump.           *)
(*                                                                         *)
(* The program is single threaded and blocks in readline(); every action   *)
(* of the model runs the code from one blocking read to the next, the      *)
(* packet (or line) that the read returns being the action's input.        *)
(***************************************************************************)
EXTENDS Integers, Sequences, FiniteSets, TLC

(* ------------------------------ bounds --------------------------------- *)

\* packets read from the socket after the login response
MaxPackets == 2
\* actions written to the socket, Login included
MaxWrites == 3

\* Packets read in a run of list actions
MaxListPackets == 4

\* Lines in the body of a Follows response
MaxBody == 3

\* Header lines in a packet
MaxHeaders == 3

\* Headers in the map given to _write_action
MaxData == 3

\* read_response calls of a session whose handler issues actions
MaxCalls == 3

(* --------------------------- packets ----------------------------------- *)

\* A packet is an AttributeDict: a mapping from header names to values.
Has(p, k) == k \in DOMAIN p

\* dict.pop(k) / del d[k] on a key that is present
Remove(p, k) == [x \in DOMAIN p \ {k} |-> p[x]]

\* d[k] = v
Put(p, k, v) == [x \in DOMAIN p \cup {k} |-> IF x = k THEN v ELSE p[x]]

\* no packet (None)
NoPacket == [none |-> TRUE]

\* Channel identifiers are strings, kept as tuples of characters
ChanSIP == <<"S", "I", "P", "/", "1">>
ChanZap == <<"Z", "a", "P", "/", "1">>
ChanShort == <<"z", "A">>
ChanNumber == <<"1">>

\* str.lower() on the characters the model uses
LowerChar(c) ==
    CASE c = "Z" -> "z"
      [] c = "A" -> "a"
      [] c = "P" -> "p"
      [] c = "S" -> "s"
      [] c = "I" -> "i"
      [] OTHER -> c

Lower(s) == [i \in 1..Len(s) |-> LowerChar(s[i])]

\* s[:n]
Prefix(s, n) == SubSeq(s, 1, IF Len(s) < n THEN Len(s) ELSE n)

\* BaseManager._get_channel
get_channel(channel_id) ==
    IF Lower(Prefix(channel_id, 3)) = <<"z", "a", "p">>
    THEN [class |-> "ZapChannel", channel_id |-> channel_id]
    ELSE [class |-> "BaseChannel", channel_id |-> channel_id]

\* The headers whose values are channel identifiers
ChannelKeys == <<"Channel", "Channel1", "Channel2">>

\* the loop "for key in ('Channel', 'Channel1', 'Channel2'): if key in packet:
\* packet[key] = self._get_channel(packet[key])" of _translate_response and
\* _translate_event
TranslateChannels(p) ==
    [x \in DOMAIN p |->
        IF \E i \in 1..Len(ChannelKeys) : ChannelKeys[i] = x
        THEN get_channel(p[x])
        ELSE p[x]]

(* --------------------------- exceptions -------------------------------- *)

\* The exception classes of Manager.py and Util.py that inherit
\* Asterisk.BaseException.__init__(self, error): exactly one argument.
OneArgExceptions ==
    {"AuthenticationFailure", "GoneAwayError", "InternalError",
     "ActionFailed", "PermissionDenied", "SubscriptionError"}

\* What "raise cls(args)" (nargs arguments; "raise cls" is nargs = 0) raises:
\* instantiating the class with an argument count its __init__ does not
\* accept raises TypeError instead.  CommunicationError.__init__(self, packet,
\* msg = None) takes one or two.
Raise(cls, nargs) ==
    IF cls \in OneArgExceptions
    THEN IF nargs = 1 THEN cls ELSE "TypeError"
    ELSE IF cls = "CommunicationError"
         THEN IF nargs \in {1, 2} THEN cls ELSE "TypeError"
         ELSE cls

(* ----------------------- _translate_response --------------------------- *)

\* BaseManager._translate_response: the outcome is [err, msg, p]: err = "" and
\* p the packet (channels translated) on success, otherwise the exception
\* raised and, for ActionFailed, the message it carries.
SuccessResponses == {"Success", "Follows", "Pong"}

translate_response(packet) ==
    LET p == TranslateChannels(packet) IN
    IF ~Has(p, "Response") THEN [err |-> "KeyError", msg |-> "Response", p |-> NoPacket]
    ELSE IF p["Response"] \in SuccessResponses THEN [err |-> "", msg |-> "", p |-> p]
    ELSE IF ~Has(p, "Message") THEN [err |-> "KeyError", msg |-> "Message", p |-> NoPacket]
    ELSE IF p["Message"] = "Permission denied"
         THEN [err |-> Raise("PermissionDenied", 0), msg |-> "", p |-> NoPacket]
    ELSE [err |-> Raise("ActionFailed", 1), msg |-> p["Message"], p |-> NoPacket]


(* ------------------------- the wire, inbound ---------------------------- *)

\* BaseManager._AST_BANNER
AST_BANNER == "Asterisk Call Manager/1.0\r\n"

\* First lines a server may send ("" is end of file)
BannerLines ==
    {AST_BANNER, "Asterisk Call Manager/1.1\r\n", "Asterisk Call Manager/1.0\n",
     "asterisk call manager/1.0\r\n", ""}

\* The packets a read may return, ids being the ActionID values the server
\* has been sent: it echoes one of them or sends none.
WithId(ps, ids) == {Put(p, "ActionID", i) : p \in ps, i \in ids}

ResponsePackets(ids) ==
    {[Response |-> "Success"]} \cup
    WithId({[Response |-> "Success"],
            [Response |-> "Error", Message |-> "No such channel"]}, ids)

\* Events carry no ActionID or, those of a list action's result, the id of
\* an action
EventPackets(ids) ==
    {[Event |-> "Hangup"], [Event |-> "Status", Channel |-> ChanSIP]} \cup
    WithId({[Event |-> "Status", Channel |-> ChanSIP],
            [Event |-> "StatusComplete"]}, ids)

\* Packets that are not well formed: both a Response and an Event header, or
\* neither of them.
BothPackets(ids) ==
    {[Response |-> "Success", Event |-> "Hangup"]} \cup
    WithId({[Response |-> "Success", Event |-> "Hangup"]}, ids)

NeitherPackets(ids) ==
    {[Message |-> "Hello"]} \cup WithId({[Message |-> "Hello"]}, ids)

PacketsWith(ids) ==
    ResponsePackets(ids) \cup EventPackets(ids) \cup BothPackets(ids)
        \cup NeitherPackets(ids)

\* What the server may answer to Login
LoginPackets ==
    {[Response |-> "Success", Message |-> "Authentication accepted"],
     [Response |-> "Error", Message |-> "Authentication failed"],
     [Response |-> "Error"],
     [Event |-> "Hangup"],
     [Message |-> "Hello"]}

\* Inputs of the check of _translate_response
TranslateInputs ==
    LET base == {[ActionID |-> 0]} \cup
                {[Response |-> r] : r \in {"Success", "Follows", "Pong", "Error", "Goodbye", "success"}}
        msg  == base \cup {Put(p, "Message", m) : p \in base,
                             m \in {"Permission denied", "No such channel", ""}}
    IN  msg \cup {Put(p, "Channel", c) : p \in msg, c \in {ChanSIP, ChanZap, ChanShort}}

(* ------------------------------ state ----------------------------------- *)

VARIABLES
    pc,               \* where the program is: "new" (connected, reading the banner),
                      \* "login" (Login written, reading its response), "serving"
                      \* (constructed, no call in progress), "await" (in read_response,
                      \* blocked in _read_packet), "pump" (in a list action's loop),
                      \* "serve_forever", "failed" (__init__ raised), "closing" (in
                      \* close, blocked in _read_packet), "closed" (close has closed
                      \* self.file)
    now,              \* the value str(time.time()) returned to the last _write_action
    written,          \* the ActionID values of the actions written to the socket, in
                      \* order, Login's first
    outstanding,      \* ids _write_action returned to callers who have yet to call read_response
    response_buffer,  \* self.response_buffer: [n, p], n the packet's arrival number
    handlers,         \* getattr(self, 'on_<name>', None) for each name
    undo,             \* the mapping replace_events returned to the running list action
    agg,              \* the running list action's aggregate (channels)
    nread,            \* packets read from the socket after login
    cur,              \* the call in progress: [op, id]
    fate,             \* for each packet read after login, by arrival number: how often
                      \* read_response returned it (ret), how many handler invocations
                      \* it was passed to (ev), how often it was refused by an exception
                      \* raised before either (rej), what _translate_response raised
                      \* on it (fail)
    out,              \* what the last step did: the packet read and where it went,
                      \* the packet read_response returned, how the call ended
    banner_line,      \* the first line read from the connection
    login_packet,     \* the packet read after Login was written
    init_error,       \* the exception __init__ raised
    tr_in,            \* an operation checked alone (_translate_response, Originate,
                      \* ...): its argument
    tr_out,           \* and its outcome
    eof,              \* the connection is at end of file: the server has closed it
                      \* and every line it sent has been read
    subscriptions,    \* an EventCollection checked alone: its subscriptions, the
                      \* list of handlers of each event name
    ev_out,           \* and what the last operation on it did
    calls             \* a session whose event handler issues an action: the
                      \* read_response calls made, the outermost first, each
                      \* waiting, suspended in a handler, returned or raised

vars == <<pc, now, written, outstanding, response_buffer,
          handlers, undo, agg, nread, cur, fate, out, banner_line, login_packet,
          init_error, eof, tr_in, tr_out, subscriptions, ev_out, calls>>

session_vars == <<pc, now, written, outstanding, response_buffer,
                  handlers, undo, agg, nread, cur, fate, out, banner_line, login_packet,
                  init_error, eof, calls>>

registry_vars == <<subscriptions, ev_out>>

alone_vars == <<tr_in, tr_out, subscriptions, ev_out, calls>>

wire_vars == <<now, written>>

init_vars == <<banner_line, login_packet, init_error>>

NoHandler == "None"

\* The names whose on_<name> attribute the model looks up; "Event" is the
\* fall-back handler on_Event.
HandlerNames == {"Status", "StatusComplete", "Hangup", "Event"}

\* CoreManager (no handlers), Manager (CoreEventHandlers' placeholders, no
\* on_Event), the docstring's AllEventsManager (CoreManager plus on_Event)
\* and a subclass of Manager that defines on_Event
HandlerConfigs ==
    {[h \in HandlerNames |-> NoHandler],
     [h \in HandlerNames |-> IF h = "Event" THEN NoHandler ELSE "prior"],
     [h \in HandlerNames |-> IF h = "Event" THEN "prior" ELSE NoHandler],
     [h \in HandlerNames |-> "prior"]}

\* The call in progress: its name, the ActionID it wrote, and the handlers the
\* session had when it was called
NoCall == [op |-> "", id |-> -1, hs |-> <<>>]

\* op, id: the call the step belongs to; done: the call ended in this step,
\* by raising err (msg its argument) or by returning (val a list action's
\* result).  n: the arrival number of the packet the step read (0: none), by
\* the loop that read it ("read_response", "pump", "read", "serve_forever"),
\* pkt the packet, route where it went: "buffer", "return" (handed to the caller
\* of read_response), "handler" (attr and h: the handler invoked, arg its argument) or "raise"
\* (an exception before any of these) or "close" (accepted by close as the
\* answer to Logoff).  rn: the arrival number of the packet
\* read_response returned in this step (0: none), orig that packet as it
\* arrived, p as it was returned.
NoOut == [op |-> "", id |-> -1, done |-> FALSE, err |-> "", msg |-> "", val |-> <<>>,
          n |-> 0, by |-> "", pkt |-> NoPacket, route |-> "", attr |-> "", h |-> NoHandler,
          arg |-> NoPacket, rn |-> 0, orig |-> NoPacket, p |-> NoPacket]

NoUndo == [h \in {} |-> NoHandler]

NoTranslation == [err |-> "", msg |-> "", p |-> NoPacket]

SessionInit ==
    /\ pc = "new"
    /\ now = 0
    /\ written = <<>>
    /\ outstanding = <<>>
    /\ response_buffer = <<>>
    /\ handlers \in HandlerConfigs
    /\ undo = NoUndo
    /\ agg = <<>>
    /\ nread = 0
    /\ cur = NoCall
    /\ fate = <<>>
    /\ out = NoOut
    /\ banner_line = "(not read)"
    /\ login_packet = NoPacket
    /\ init_error = ""
    /\ eof = FALSE
    /\ calls = <<>>

\* No EventCollection under check
NoSubscriptions == <<>>

NoEv == [op |-> ""]

RegistryIdle ==
    /\ subscriptions = NoSubscriptions
    /\ ev_out = NoEv

Init ==
    /\ SessionInit
    /\ tr_in = NoPacket
    /\ tr_out = NoTranslation
    /\ RegistryIdle

\* The ActionID values of the actions written after Login
SentIds == {written[i] : i \in 2..Len(written)}

\* The packets the next read may return.  Login's response has been read when
\* the session serves, and the server sends nothing more that echoes Login's
\* ActionID.
Packets == PacketsWith(SentIds)

(* ------------------------- _write_action -------------------------------- *)

\* What time.time() may return to the next _write_action: the value it
\* returned to the last one, or a later one.  Ids are only compared for
\* equality, so one later value stands for all of them.
Clock == {now, now + 1}

\* BaseManager._write_action at clock value t: id = str(time.time()); the
\* action's lines are written; the id is returned.
write_action_id(t) == t

write_action(t) ==
    /\ now' = t
    /\ written' = Append(written, write_action_id(t))

(* --------------------- __init__ / _authenticate ------------------------- *)

\* The comparison of the first line with the banner (banner_ok_AnyLine: a
\* variant that accepts every line but end of file)
banner_ok_AnyLine(line) == line # ""

banner_ok(line) == line = AST_BANNER

\* __init__ up to the first blocking read after the banner: the banner line
\* is read and compared; Login is written.
ReadBanner ==
    /\ pc = "new"
    /\ \E line \in BannerLines :
        /\ banner_line' = line
        /\ IF banner_ok(line)
           THEN /\ write_action(now)
                /\ pc' = "login"
                /\ init_error' = ""
           ELSE /\ pc' = "failed"
                /\ init_error' = Raise("Exception", 1)
                /\ UNCHANGED wire_vars
    /\ UNCHANGED <<outstanding, response_buffer, handlers, undo, agg, nread, cur, fate,
                   out, login_packet, eof, alone_vars>>

\* What _authenticate does with the packet read after Login: "" when it returns
login_outcome(p) ==
    IF ~Has(p, "Response") THEN "KeyError"
    ELSE IF p["Response"] = "Error" THEN Raise("AuthenticationFailure", 0)
    ELSE ""

ReadLoginResponse ==
    /\ pc = "login"
    /\ \E p \in LoginPackets :
        /\ login_packet' = p
        /\ init_error' = login_outcome(p)
        /\ pc' = IF login_outcome(p) = "" THEN "serving" ELSE "failed"
    /\ UNCHANGED <<wire_vars, outstanding, response_buffer, handlers, undo, agg,
                   nread, cur, fate, out, banner_line, eof, alone_vars>>

(* ---------------------------- dispatch ---------------------------------- *)

\* getattr(self, 'on_' + name, None)
getattr_on(hs, name) == IF name \in DOMAIN hs THEN hs[name] ELSE NoHandler

\* BaseManager.strip_evinfo: a copy of the event without ActionID and Event;
\* "del new['ActionID'], new['Event']" raises KeyError when one is missing.
strip_evinfo(event) ==
    IF ~Has(event, "ActionID") \/ ~Has(event, "Event")
    THEN [err |-> "KeyError", new |-> NoPacket]
    ELSE [err |-> "", new |-> Remove(Remove(event, "ActionID"), "Event")]

\* The actions that collect events into a result: CoreActions.ParkedCalls,
\* QueueStatus and Status, ZapataActions.ZapShowChannels
ListActions == {"Status", "ParkedCalls", "QueueStatus", "ZapShowChannels"}

\* The event whose temporary handler sets the stop flag
Terminator(op) ==
    CASE op = "Status" -> "StatusComplete"
      [] op = "ParkedCalls" -> "ParkedCallsComplete"
      [] op = "QueueStatus" -> "QueueStatusEnd"
      [] op = "ZapShowChannels" -> "ZapShowChannelsComplete"

\* The events whose temporary handlers store into the result
BodyEvents(op) ==
    CASE op = "Status" -> {"Status"}
      [] op = "ParkedCalls" -> {"ParkedCall"}
      [] op = "QueueStatus" -> {"QueueParams", "QueueMember", "QueueEntry"}
      [] op = "ZapShowChannels" -> {"ZapShowChannels"}

\* The event names CoreActions.Status captures
StatusEvents == {"Status", "StatusComplete"}

\* The names the action hands to replace_events
Captured(op) == IF op = "Status" THEN StatusEvents ELSE BodyEvents(op) \cup {Terminator(op)}

Terminators == {Terminator(op) : op \in ListActions}

\* The result of a list action while it is built: one entry per item of a
\* dict.  map names the dict ("channels", "parked", "queues", or the
\* "members" or "entries" of the queue named by of), key is the dict key and
\* val the record stored under it.  A channel object is a key by identity,
\* and _translate_event makes a new object for every event: obj is the
\* arrival number of the event that made it (0 for a key that is a string).
dict_store(a, map, of, obj, key, val) ==
    LET same(e) == e.map = map /\ e.of = of /\ e.obj = obj /\ obj = 0 /\ e.key = key IN
    IF \E i \in 1..Len(a) : same(a[i])
    THEN [i \in 1..Len(a) |-> IF same(a[i]) THEN [a[i] EXCEPT !.val = val] ELSE a[i]]
    ELSE Append(a, [map |-> map, of |-> of, obj |-> obj, key |-> key, val |-> val])

\* "queues[name] = queue" after "queue['members'] = {}; queue['entries'] = {}":
\* what an earlier QueueParams of that name had collected is gone
queue_store(a, name, val) ==
    dict_store(SelectSeq(a, LAMBDA e : ~(e.map \in {"members", "entries"} /\ e.of = name)),
               "queues", "", 0, name, val)

has_queue(a, name) == \E i \in 1..Len(a) : a[i].map = "queues" /\ a[i].key = name

\* The body of the temporary handler of a body event named attr, after its
\* strip_evinfo returned new; event is the handler's argument.  A pop of a
\* missing header and a lookup of an unknown queue raise KeyError; int() of
\* a channel object raises TypeError.
store_body(attr, event, new, n, a) ==
    CASE attr = "Status" ->
            IF ~Has(new, "Channel") THEN [err |-> "KeyError", agg |-> a]
            ELSE [err |-> "",
                  agg |-> dict_store(a, "channels", "", n, new["Channel"],
                                     Remove(new, "Channel"))]
      [] attr = "ParkedCall" ->
            IF ~Has(new, "Exten") THEN [err |-> "KeyError", agg |-> a]
            ELSE [err |-> "",
                  agg |-> dict_store(a, "parked", "", 0, new["Exten"], Remove(new, "Exten"))]
      [] attr = "QueueParams" ->
            IF ~Has(new, "Queue") THEN [err |-> "KeyError", agg |-> a]
            ELSE [err |-> "", agg |-> queue_store(a, new["Queue"], Remove(new, "Queue"))]
      [] attr = "QueueMember" ->
            IF ~Has(new, "Queue") \/ ~Has(new, "Location") THEN [err |-> "KeyError", agg |-> a]
            ELSE IF ~has_queue(a, new["Queue"]) THEN [err |-> "KeyError", agg |-> a]
            ELSE [err |-> "",
                  agg |-> dict_store(a, "members", new["Queue"], 0, new["Location"],
                                     Remove(Remove(new, "Queue"), "Location"))]
      [] attr = "QueueEntry" ->
            IF ~Has(new, "Queue") \/ ~Has(event, "Channel") THEN [err |-> "KeyError", agg |-> a]
            ELSE IF ~has_queue(a, new["Queue"]) THEN [err |-> "KeyError", agg |-> a]
            ELSE [err |-> "",
                  agg |-> dict_store(a, "entries", new["Queue"], n, event["Channel"],
                                     Remove(new, "Queue"))]
      [] attr = "ZapShowChannels" ->
            IF ~Has(new, "Channel") THEN [err |-> "KeyError", agg |-> a]
            ELSE [err |-> "TypeError", agg |-> a]

\* The handler bodies.  A handler that was there before a list action
\* ("prior": a placeholder of CoreEventHandlers or ZapataEventHandlers, or
\* the user's) does nothing to the session.  The temporary handlers of a list
\* action: the terminator's sets the stop flag, a body event's strips the
\* event and stores it.
run_handler(attr, h, event, n, a) ==
    IF h # "temp"
    THEN [err |-> "", agg |-> a, stop |-> FALSE]
    ELSE IF attr \in Terminators
    THEN [err |-> "", agg |-> a, stop |-> TRUE]
    ELSE LET s == strip_evinfo(event) IN
         IF s.err # "" THEN [err |-> s.err, agg |-> a, stop |-> FALSE]
         ELSE LET r == store_body(attr, event, s.new, n, a) IN
              [err |-> r.err, agg |-> r.agg, stop |-> FALSE]

\* The handler _dispatch_packet picks for an event named name: the specific
\* on_<name> when there is one, otherwise the global on_Event (NoHandler:
\* neither exists)
select_handler_GlobalFirst(hs, name) ==
    IF getattr_on(hs, "Event") # NoHandler
    THEN [attr |-> "Event", h |-> getattr_on(hs, "Event")]
    ELSE [attr |-> name, h |-> getattr_on(hs, name)]

select_handler(hs, name) ==
    IF getattr_on(hs, name) # NoHandler
    THEN [attr |-> name, h |-> getattr_on(hs, name)]
    ELSE [attr |-> "Event", h |-> getattr_on(hs, "Event")]

\* BaseManager._dispatch_packet on packet number n: where the packet went
\* (route; attr and h the handler invoked), the new buffer, the new aggregate
\* and stop flag, and the exception that leaves it (err).
\* (dispatch_packet_EventFirst: a variant that hands an event to its handler
\* and buffers every packet)
dispatch_packet_EventFirst(packet, n, buf, hs, a) ==
    IF Has(packet, "Event") /\ getattr_on(hs, packet["Event"]) # NoHandler
    THEN [err |-> "", route |-> "handler", attr |-> packet["Event"],
          h |-> getattr_on(hs, packet["Event"]), arg |-> TranslateChannels(packet),
          buffer |-> Append(buf, [n |-> n, p |-> packet]), agg |-> a, stop |-> FALSE]
    ELSE [err |-> "", route |-> "buffer", attr |-> "", h |-> NoHandler, arg |-> NoPacket,
          buffer |-> Append(buf, [n |-> n, p |-> packet]), agg |-> a, stop |-> FALSE]

dispatch_packet(packet, n, buf, hs, a) ==
    IF Has(packet, "Response")
    THEN [err |-> "", route |-> "buffer", attr |-> "", h |-> NoHandler, arg |-> NoPacket,
          buffer |-> Append(buf, [n |-> n, p |-> packet]), agg |-> a, stop |-> FALSE]
    ELSE IF Has(packet, "Event")
    THEN LET event == TranslateChannels(packet)
             m == select_handler(hs, event["Event"])
         IN  IF m.h = NoHandler
             THEN [err |-> Raise("InternalError", 2), route |-> "raise", attr |-> "",
                   h |-> NoHandler, arg |-> NoPacket, buffer |-> buf, agg |-> a,
                   stop |-> FALSE]
             ELSE LET r == run_handler(m.attr, m.h, event, n, a) IN
                  [err |-> r.err, route |-> "handler", attr |-> m.attr, h |-> m.h,
                   arg |-> event, buffer |-> buf, agg |-> r.agg, stop |-> r.stop]
    ELSE [err |-> Raise("InternalError", 2), route |-> "raise", attr |-> "",
          h |-> NoHandler, arg |-> NoPacket, buffer |-> buf, agg |-> a, stop |-> FALSE]

\* The record of a step of call op (for id) in which the loop named by read
\* packet number n and dispatched it
Dispatched(op, id, by, n, packet, d) ==
    [NoOut EXCEPT !.op = op, !.id = id, !.by = by, !.n = n, !.pkt = packet,
                  !.route = d.route, !.attr = d.attr, !.h = d.h, !.arg = d.arg]

\* The packets' fates after a step recorded as o
Account(f, o) ==
    LET read == IF o.n = 0 THEN f
                ELSE Append(f, [ret  |-> 0,
                                ev   |-> IF o.route = "handler" THEN 1 ELSE 0,
                                rej  |-> IF o.route = "raise" THEN 1 ELSE 0,
                                fail |-> ""])
    IN  IF o.rn = 0 THEN read
        ELSE [read EXCEPT ![o.rn].ret = @ + 1,
                          ![o.rn].fail = o.err]

(* -------------------- replace_events / undo_events ---------------------- *)


\* BaseManager.replace_events: the undo mapping and the new handlers
\* (replace_events_KeepPrior: a variant that leaves a name alone when it has
\* a handler already)
replace_events_KeepPrior(hs, names) ==
    [name \in DOMAIN hs \cup names |->
        IF name \in names /\ getattr_on(hs, name) = NoHandler THEN "temp" ELSE hs[name]]

replace_events_undo(hs, names) == [name \in names |-> getattr_on(hs, name)]

replace_events(hs, names) ==
    [name \in DOMAIN hs \cup names |-> IF name \in names THEN "temp" ELSE hs[name]]

\* BaseManager.undo_events: a name saved as None loses its attribute, which
\* getattr then answers with None again
\* (undo_events_IgnoreNone: a variant that leaves such a name as it is)
undo_events_IgnoreNone(hs, mapping) ==
    [name \in DOMAIN hs |->
        IF name \in DOMAIN mapping /\ mapping[name] # NoHandler THEN mapping[name]
        ELSE hs[name]]

undo_events(hs, mapping) ==
    [name \in DOMAIN hs |-> IF name \in DOMAIN mapping THEN mapping[name] ELSE hs[name]]

(* --------------------------- read_response ------------------------------ *)

\* buffer.pop(idx) (RemoveAt_UpTo: a variant that pops everything up to idx)
RemoveAt_UpTo(s, i) == SubSeq(s, i + 1, Len(s))

RemoveAt(s, i) == SubSeq(s, 1, i - 1) \o SubSeq(s, i + 1, Len(s))

Min(S) == CHOOSE x \in S : \A y \in S : x <= y

\* The scan of the buffer at the top of read_response's loop: the first
\* buffered packet whose ActionID is id is a hit; "packet.ActionID" raises
\* KeyError on a buffered packet that has no ActionID.
\* (scan_buffer_First: a variant that takes the first buffered packet
\* whatever its ActionID)
scan_buffer_First(buf, id) ==
    IF buf = <<>> THEN [kind |-> "miss", idx |-> 0] ELSE [kind |-> "hit", idx |-> 1]

scan_buffer(buf, id) ==
    LET stops == {i \in 1..Len(buf) :
                    ~Has(buf[i].p, "ActionID") \/ buf[i].p["ActionID"] = id}
    IN  IF stops = {} THEN [kind |-> "miss", idx |-> 0]
        ELSE IF ~Has(buf[Min(stops)].p, "ActionID")
             THEN [kind |-> "KeyError", idx |-> Min(stops)]
             ELSE [kind |-> "hit", idx |-> Min(stops)]

\* "packet.pop('ActionID'); return packet" (pop_ActionID_Keep: a variant
\* without the pop)
pop_ActionID_Keep(packet) == packet

pop_ActionID(packet) == Remove(packet, "ActionID")

\* What read_response does with a packet read from the socket, before it
\* goes round its loop: "event" (to _dispatch_packet), "raise"
\* (CommunicationError), "return" or "buffer".
\* (classify_EventLast: a variant that compares the ActionID before it looks
\* for the Event header; classify_EventsBuffered: a variant that keeps an
\* event that carries another action's id in the buffer)
classify_EventsBuffered(packet, id) ==
    IF ~Has(packet, "ActionID") THEN IF Has(packet, "Event") THEN "event" ELSE "raise"
    ELSE IF packet["ActionID"] = id /\ ~Has(packet, "Event") THEN "return"
    ELSE IF packet["ActionID"] = id THEN "event"
    ELSE "buffer"

classify_EventLast(packet, id) ==
    IF ~Has(packet, "ActionID") THEN IF Has(packet, "Event") THEN "event" ELSE "raise"
    ELSE IF packet["ActionID"] = id THEN "return"
    ELSE IF Has(packet, "Event") THEN "event"
    ELSE "buffer"

classify(packet, id) ==
    IF Has(packet, "Event") THEN "event"
    ELSE IF ~Has(packet, "ActionID") THEN "raise"
    ELSE IF packet["ActionID"] = id THEN "return"
    ELSE "buffer"

RemoveFirst(s, x) ==
    IF \E i \in 1..Len(s) : s[i] = x
    THEN RemoveAt(s, Min({i \in 1..Len(s) : s[i] = x}))
    ELSE s

\* The record of a step of call op (for id) that read no packet so far
Calling(op, id) == [NoOut EXCEPT !.op = op, !.id = id]

\* The call in progress ends by raising err; o records the step so far.
Raises(o, err, msg) ==
    /\ pc' = "serving"
    /\ cur' = NoCall
    /\ out' = [o EXCEPT !.done = TRUE, !.err = err, !.msg = msg]
    /\ UNCHANGED <<outstanding, handlers, undo, agg>>

\* The call in progress blocks in _read_packet inside read_response.
Blocks(o) ==
    /\ pc' = "await"
    /\ cur' = [op |-> o.op, id |-> o.id, hs |-> IF cur.op = "" THEN handlers ELSE cur.hs]
    /\ out' = o
    /\ UNCHANGED <<outstanding, handlers, undo, agg>>

\* A list action reaches its replace_events: the statement
\* "self._translate_response(self.read_response(id))" before it did not raise
\* (err is what _translate_response raised).
\* (installs_handlers_Early: a variant that installs them before the response
\* is validated)
installs_handlers_Early(op, err) == op \in ListActions

installs_handlers(op, err) == op \in ListActions /\ err = ""

\* read_response(o.id) returns packet number n, which arrived as orig, to its
\* caller o.op: read_response called directly; Ping, which returns
\* _translate_response of it; or Status, which goes on, if
\* _translate_response succeeds, to install its temporary handlers and to
\* pump packets.
Returns(o, n, orig) ==
    LET p  == pop_ActionID(orig)
        tr == translate_response(p)
        r  == [o EXCEPT !.rn = n, !.orig = orig, !.p = p]
        installs == o.op # "read_response" /\ installs_handlers(o.op, tr.err)
    IN
    /\ outstanding' = IF o.op = "read_response" THEN RemoveFirst(outstanding, o.id)
                      ELSE outstanding
    /\ undo' = IF installs THEN replace_events_undo(handlers, Captured(o.op)) ELSE undo
    /\ handlers' = IF installs THEN replace_events(handlers, Captured(o.op)) ELSE handlers
    /\ agg' = IF installs THEN <<>> ELSE agg
    /\ IF o.op = "read_response"
       THEN /\ pc' = "serving"
            /\ cur' = NoCall
            /\ out' = [r EXCEPT !.done = TRUE]
       ELSE IF o.op = "Ping" \/ tr.err # ""
       THEN /\ pc' = "serving"
            /\ cur' = NoCall
            /\ out' = [r EXCEPT !.done = TRUE, !.err = tr.err, !.msg = tr.msg]
       ELSE /\ pc' = "pump"
            /\ cur' = [op |-> o.op, id |-> o.id, hs |-> IF cur.op = "" THEN handlers ELSE cur.hs]
            /\ out' = r

\* The top of read_response's loop with the buffer buf: the scan, then either
\* the return of a buffered packet, a KeyError, or the blocking read.
LoopTop(o, buf) ==
    LET s == scan_buffer(buf, o.id) IN
    IF s.kind = "hit"
    THEN /\ response_buffer' = RemoveAt(buf, s.idx)
         /\ Returns(o, buf[s.idx].n, buf[s.idx].p)
    ELSE IF s.kind = "KeyError"
    THEN /\ response_buffer' = buf
         /\ Raises(o, "KeyError", "ActionID")
    ELSE /\ response_buffer' = buf
         /\ Blocks(o)

(* ------------------------- the caller's calls --------------------------- *)

\* id = self._write_action(...) alone: the caller keeps the id
WriteAction ==
    /\ pc = "serving"
    /\ Len(written) < MaxWrites
    /\ \E t \in Clock :
        /\ write_action(t)
        /\ outstanding' = Append(outstanding, write_action_id(t))
        /\ out' = [Calling("write", write_action_id(t)) EXCEPT !.done = TRUE]
    /\ fate' = Account(fate, out')
    /\ UNCHANGED <<pc, response_buffer, handlers, undo, agg, nread, cur, init_vars,
                   eof, alone_vars>>

\* self.read_response(id) with an id _write_action returned earlier, up to
\* its return or its first blocking read
CallReadResponse ==
    /\ pc = "serving"
    /\ \E i \in 1..Len(outstanding) :
            LoopTop(Calling("read_response", outstanding[i]), response_buffer)
    /\ fate' = Account(fate, out')
    /\ UNCHANGED <<wire_vars, nread, init_vars, eof, alone_vars>>

\* CoreActions.Ping (and every action of its shape): _write_action, then
\* read_response up to its return or its first blocking read
CallPing ==
    /\ pc = "serving"
    /\ Len(written) < MaxWrites
    /\ \E t \in Clock :
        /\ write_action(t)
        /\ LoopTop(Calling("Ping", write_action_id(t)), response_buffer)
    /\ fate' = Account(fate, out')
    /\ UNCHANGED <<nread, init_vars, eof, alone_vars>>

\* CoreActions.Status, likewise
CallStatus ==
    /\ pc = "serving"
    /\ Len(written) < MaxWrites
    /\ \E t \in Clock :
        /\ write_action(t)
        /\ LoopTop(Calling("Status", write_action_id(t)), response_buffer)
    /\ fate' = Account(fate, out')
    /\ UNCHANGED <<nread, init_vars, eof, alone_vars>>

\* read_response's _read_packet returns packet p: the rest of the loop body,
\* and the top of the next round
AwaitReadOf(P, max) ==
    /\ pc = "await"
    /\ ~eof
    /\ nread < max
    /\ \E p \in P :
        LET n == nread + 1
            c == classify(p, cur.id)
            d == dispatch_packet(p, n, response_buffer, handlers, agg)
            o == [Calling(cur.op, cur.id) EXCEPT !.by = "read_response", !.n = n, !.pkt = p]
        IN
        /\ nread' = n
        /\ IF c = "event"
           THEN IF d.err # ""
                THEN /\ response_buffer' = d.buffer
                     /\ Raises(Dispatched(cur.op, cur.id, "read_response", n, p, d), d.err, "")
                ELSE LoopTop(Dispatched(cur.op, cur.id, "read_response", n, p, d), d.buffer)
           ELSE IF c = "raise"
           THEN /\ Raises([o EXCEPT !.route = "raise"],
                          Raise("CommunicationError", 2), "no ActionID")
                /\ UNCHANGED response_buffer
           ELSE IF c = "return"
           THEN /\ Returns([o EXCEPT !.route = "return"], n, p)
                /\ UNCHANGED response_buffer
           ELSE LoopTop([o EXCEPT !.route = "buffer"],
                        Append(response_buffer, [n |-> n, p |-> p]))
    /\ fate' = Account(fate, out')
    /\ UNCHANGED <<wire_vars, init_vars, eof, alone_vars>>

AwaitRead == AwaitReadOf(Packets, MaxPackets)

\* The list action's loop "while stop_flag[0] == False: packet =
\* self._read_packet(); self._dispatch_packet(packet)" with its "finally:
\* self.undo_events(undo)" and "return channels"
PumpReadOf(P, max) ==
    /\ pc = "pump"
    /\ ~eof
    /\ nread < max
    /\ \E p \in P :
        LET n == nread + 1
            d == dispatch_packet(p, n, response_buffer, handlers, agg)
            o == Dispatched(cur.op, cur.id, "pump", n, p, d)
        IN
        /\ nread' = n
        /\ response_buffer' = d.buffer
        /\ IF d.err # "" \/ d.stop
           THEN /\ handlers' = undo_events(handlers, undo)
                /\ undo' = NoUndo
                /\ agg' = <<>>
                /\ pc' = "serving"
                /\ cur' = NoCall
                /\ out' = IF d.err # "" THEN [o EXCEPT !.done = TRUE, !.err = d.err]
                          ELSE [o EXCEPT !.done = TRUE, !.val = d.agg]
           ELSE /\ agg' = d.agg
                /\ out' = o
                /\ UNCHANGED <<handlers, undo, pc, cur>>
    /\ fate' = Account(fate, out')
    /\ UNCHANGED <<wire_vars, outstanding, init_vars, eof, alone_vars>>

PumpRead == PumpReadOf(Packets, MaxPackets)

\* BaseManager.read: one packet is read and dispatched
Read ==
    /\ pc = "serving"
    /\ nread < MaxPackets
    /\ \E p \in Packets :
        LET n == nread + 1
            d == dispatch_packet(p, n, response_buffer, handlers, agg)
        IN
        /\ nread' = n
        /\ response_buffer' = d.buffer
        /\ out' = [Dispatched("read", -1, "read", n, p, d) EXCEPT !.done = TRUE, !.err = d.err]
    /\ fate' = Account(fate, out')
    /\ UNCHANGED <<pc, wire_vars, outstanding, handlers, undo, agg, cur, init_vars,
                   eof, alone_vars>>

\* BaseManager.serve_forever is called and blocks in its first _read_packet
CallServeForever ==
    /\ pc = "serving"
    /\ pc' = "serve_forever"
    /\ cur' = [op |-> "serve_forever", id |-> -1, hs |-> handlers]
    /\ out' = Calling("serve_forever", -1)
    /\ fate' = Account(fate, out')
    /\ UNCHANGED <<wire_vars, outstanding, response_buffer, handlers, undo, agg,
                   nread, init_vars, eof, alone_vars>>

\* One round of serve_forever's loop; an exception of _dispatch_packet ends it
ServeRead ==
    /\ pc = "serve_forever"
    /\ nread < MaxPackets
    /\ \E p \in Packets :
        LET n == nread + 1
            d == dispatch_packet(p, n, response_buffer, handlers, agg)
            o == Dispatched("serve_forever", -1, "serve_forever", n, p, d)
        IN
        /\ nread' = n
        /\ response_buffer' = d.buffer
        /\ IF d.err # ""
           THEN /\ pc' = "serving"
                /\ cur' = NoCall
                /\ out' = [o EXCEPT !.done = TRUE, !.err = d.err]
           ELSE /\ out' = o
                /\ UNCHANGED <<pc, cur>>
    /\ fate' = Account(fate, out')
    /\ UNCHANGED <<wire_vars, outstanding, handlers, undo, agg, init_vars, eof, alone_vars>>

Next ==
    \/ ReadBanner
    \/ ReadLoginResponse
    \/ WriteAction
    \/ CallReadResponse
    \/ CallPing
    \/ CallStatus
    \/ AwaitRead
    \/ PumpRead
    \/ Read
    \/ CallServeForever
    \/ ServeRead

Spec == Init /\ [][Next]_vars

(* --------------- _translate_response checked on its own ----------------- *)

TranslateInit ==
    /\ SessionInit
    /\ handlers = [h \in HandlerNames |-> NoHandler]
    /\ tr_in \in TranslateInputs
    /\ tr_out = NoTranslation
    /\ RegistryIdle

\* self._translate_response(tr_in)
Translate ==
    /\ tr_out = NoTranslation
    /\ tr_out' = translate_response(tr_in)
    /\ UNCHANGED <<tr_in, session_vars, registry_vars>>

TranslateNext == Translate

TranslateSpec == TranslateInit /\ [][TranslateNext]_vars

(* ----------------------- Originate checked on its own ------------------- *)

\* Python's None
None == "None"

\* Arguments of Originate: each a value or None; channel may also be empty.
\* The arguments the model leaves out (timeout, caller_id, variable, account,
\* async) are None.
OriginateArgs ==
    [channel : {None, "", "SIP/1"}, context : {None, "default"},
     extension : {None, "100"}, priority : {None, "1"},
     application : {None, "Playback"}, data : {None, "beep"}]

\* The call Originate makes of _write_action: none when it raised
NoWrite == [action |-> "", data |-> <<>>]

\* "has_dialplan = None not in (channel, context, extension)"
has_dialplan(a) == None \notin {a.channel, a.context, a.extension}

\* CoreActions.Originate up to its _write_action: the exception raised, or
\* the action written and its header map
Originate(a) ==
    LET has_application == a.application # None IN
    IF has_dialplan(a) /\ has_application
    THEN [err |-> Raise("ActionFailed", 1), msg |-> "mutually exclusive", w |-> NoWrite]
    ELSE IF ~(has_dialplan(a) \/ has_application)
    THEN [err |-> Raise("ActionFailed", 1), msg |-> "neither", w |-> NoWrite]
    ELSE IF a.channel \in {None, ""}
    THEN [err |-> Raise("ActionFailed", 1), msg |-> "you must specify a channel",
          w |-> NoWrite]
    ELSE [err |-> "", msg |-> "",
          w |-> [action |-> "Originate",
                 data |-> [Channel |-> a.channel, Context |-> a.context,
                           Exten |-> a.extension, Priority |-> a.priority,
                           Application |-> a.application, Data |-> a.data,
                           Timeout |-> None, CallerID |-> None, Variable |-> None,
                           Account |-> None, Async |-> "0"]]]

OriginateInit ==
    /\ SessionInit
    /\ handlers = [h \in HandlerNames |-> NoHandler]
    /\ tr_in \in OriginateArgs
    /\ tr_out = NoTranslation
    /\ RegistryIdle

\* self.Originate(**tr_in)
CallOriginate ==
    /\ tr_out = NoTranslation
    /\ tr_out' = Originate(tr_in)
    /\ UNCHANGED <<tr_in, session_vars, registry_vars>>

OriginateNext == CallOriginate

OriginateSpec == OriginateInit /\ [][OriginateNext]_vars

(* ---------------- _read_response_follows checked on its own ------------- *)

\* A line of text is a tuple of pieces of text; what the connection holds is
\* a sequence of lines, each ending in CRLF.  file.readline() returns the
\* next line, or '' (the empty tuple) at end of file.
CRLF == "\r\n"

Whitespace == {" ", CRLF}

END_COMMAND == "--END COMMAND--"

readline(lines) == IF lines = <<>> THEN <<>> ELSE Head(lines)

after_readline(lines) == IF lines = <<>> THEN <<>> ELSE Tail(lines)

\* str.rstrip(); the piece ": " loses its blank at the end of a line
RECURSIVE rstrip(_)
rstrip(line) ==
    IF line # <<>> /\ line[Len(line)] \in Whitespace
    THEN rstrip(SubSeq(line, 1, Len(line) - 1))
    ELSE IF line # <<>> /\ line[Len(line)] = ": "
    THEN SubSeq(line, 1, Len(line) - 1) \o <<":">>
    ELSE line

\* line.startswith('ActionID: '), and line[10:] of such a line
startswith_ActionID(line) == line # <<>> /\ line[1] = "ActionID: "

\* The loop of _read_response_follows with lines still to read, at line
\* number line_nr, the packet and its Lines so far: the packet returned and
\* what is left on the connection
RECURSIVE follows_loop(_, _, _, _)
follows_loop(lines, line_nr, packet, acc) ==
    LET line == rstrip(readline(lines))
        rest == after_readline(lines)
    IN  IF line_nr = 1 /\ startswith_ActionID(line)
        THEN follows_loop(rest, line_nr + 1, Put(packet, "ActionID", Tail(line)), acc)
        ELSE IF line = <<>> \/ line = <<END_COMMAND>>
        THEN [packet |-> Put(packet, "Lines", acc), rest |-> after_readline(rest)]
        ELSE follows_loop(rest, line_nr + 1, packet, Append(acc, line))

read_response_follows(lines) == follows_loop(lines, 1, [Response |-> "Follows"], <<>>)

\* CoreActions.Command once its read_response has read packet:
\* "self._translate_response(self.read_response(id))['Lines']"; the packet
\* is the response to id when read_response returns it
Command(id, packet) ==
    IF classify(packet, id) # "return"
    THEN [mine |-> FALSE, err |-> "", lines |-> <<>>]
    ELSE LET tr == translate_response(pop_ActionID(packet)) IN
         [mine |-> TRUE, err |-> tr.err,
          lines |-> IF tr.err = "" THEN tr.p["Lines"] ELSE <<>>]

\* Lines a command's output may have: text, text with a blank at its end, a
\* line of the form "key: value", an empty line
BodyLines == {<<"out">>, <<"out", " ">>, <<"Privilege", ": ", "Command">>, <<>>}

\* A Follows response as the server sends it after the line "Response:
\* Follows": the ActionID line if the action carried one, the body, the end
\* marker and the blank line that ends the packet
FollowsInputs ==
    [id : {None, <<"7">>},
     body : UNION {[1..n -> BodyLines] : n \in 0..MaxBody}]

FollowsWire(in) ==
    (IF in.id = None THEN <<>> ELSE <<<<"ActionID: ">> \o in.id \o <<CRLF>>>>)
        \o [i \in 1..Len(in.body) |-> in.body[i] \o <<CRLF>>]
        \o <<<<END_COMMAND, CRLF>>, <<CRLF>>>>

FollowsInit ==
    /\ SessionInit
    /\ handlers = [h \in HandlerNames |-> NoHandler]
    /\ tr_in \in FollowsInputs
    /\ tr_out = NoTranslation
    /\ RegistryIdle

\* _read_packet has read "Response: Follows" and calls
\* _read_response_follows; Command, which wrote the ActionID, gets the packet
ReadFollows ==
    /\ tr_out = NoTranslation
    /\ LET r == read_response_follows(FollowsWire(tr_in)) IN
        tr_out' = [packet |-> r.packet, rest |-> r.rest,
                   command |-> Command(tr_in.id, r.packet)]
    /\ UNCHANGED <<tr_in, session_vars, registry_vars>>

FollowsNext == ReadFollows

FollowsSpec == FollowsInit /\ [][FollowsNext]_vars

(* ----------------------- _read_packet checked on its own ---------------- *)

\* AttributeDict.MULTI_VALUE_FIELD
MULTI_VALUE_FIELD == {"ChanVariable", "DestChanVariable"}

\* The positions in a text of the piece c
Positions(text, c) == {i \in 1..Len(text) : text[i] = c}

\* A text of one piece is the piece, which is how header names appear as
\* packet keys
str(text) == IF Len(text) = 1 THEN text[1] ELSE text

\* value.split('=')[:2] of a value that has a '=': the text before the first
\* '=', and the text between it and the second '=' (or the end)
split_eq(value) ==
    LET eqs == Positions(value, "=")
        i == Min(eqs)
        j == IF eqs = {i} THEN Len(value) + 1 ELSE Min(eqs \ {i})
    IN  [k |-> SubSeq(value, 1, i - 1), v |-> SubSeq(value, i + 1, j - 1)]

\* AttributeDict.__setitem__ on the packet d, dicts being the keys of d whose
\* value is a nested dict: "self[key][k] = v" raises TypeError when self[key]
\* is a string.
setitem(d, key, value) ==
    IF key \in MULTI_VALUE_FIELD /\ Positions(value, "=") # {}
    THEN LET kv == split_eq(value) IN
         IF Has(d.p, key)
         THEN IF key \in d.dicts
              THEN [err |-> "", p |-> Put(d.p, key, Put(d.p[key], kv.k, kv.v)),
                    dicts |-> d.dicts]
              ELSE [err |-> "TypeError", p |-> d.p, dicts |-> d.dicts]
         ELSE [err |-> "", p |-> Put(d.p, key, Put(<<>>, kv.k, kv.v)),
               dicts |-> d.dicts \cup {key}]
    ELSE [err |-> "", p |-> Put(d.p, key, value), dicts |-> d.dicts \ {key}]

\* The key and value of a header line: "if line.count(':') == 1 and line[-1]
\* == ':': key, val = line[:-1], ''  else: key, val = line.split(': ', 1)";
\* the unpacking raises ValueError when the line has no ': '.
split_header(line) ==
    LET colons == Positions(line, ": ") \cup Positions(line, ":") IN
    IF Cardinality(colons) = 1 /\ line[Len(line)] = ":"
    THEN [err |-> "", key |-> str(SubSeq(line, 1, Len(line) - 1)), val |-> <<>>]
    ELSE IF Positions(line, ": ") = {}
    THEN [err |-> "ValueError", key |-> "", val |-> <<>>]
    ELSE LET i == Min(Positions(line, ": ")) IN
         [err |-> "", key |-> str(SubSeq(line, 1, i - 1)),
          val |-> SubSeq(line, i + 1, Len(line))]

\* The loop of _read_packet with lines still to read and the packet d so
\* far: the exception raised or the packet returned, and what is left on the
\* connection
RECURSIVE packet_loop(_, _)
packet_loop(lines, d) ==
    LET line == rstrip(readline(lines))
        rest == after_readline(lines)
        h == split_header(line)
        next == setitem(d, h.key, h.val)
    IN  IF line = <<>>
        THEN IF DOMAIN d.p = {}
             THEN [err |-> Raise("GoneAwayError", 1), packet |-> NoPacket, rest |-> rest]
             ELSE [err |-> "", packet |-> d.p, rest |-> rest]
        ELSE IF h.err # ""
        THEN [err |-> h.err, packet |-> NoPacket, rest |-> rest]
        ELSE IF h.key = "Response" /\ h.val = <<"Follows">>
        THEN LET f == read_response_follows(rest) IN
             [err |-> "", packet |-> f.packet, rest |-> f.rest]
        ELSE IF next.err # ""
        THEN [err |-> next.err, packet |-> NoPacket, rest |-> rest]
        ELSE packet_loop(rest, next)

\* (read_packet_EmptyAtEof: a variant that returns an empty packet at end of
\* file)
read_packet_EmptyAtEof(lines) ==
    IF lines = <<>> THEN [err |-> "", packet |-> <<>>, rest |-> <<>>]
    ELSE packet_loop(lines, [p |-> <<>>, dicts |-> {}])

read_packet(lines) == packet_loop(lines, [p |-> <<>>, dicts |-> {}])

\* Header lines a packet may have; the same header may come several times
HeaderLines ==
    {<<"Event", ": ", "Newchannel">>, <<"Event", ": ", "Hangup">>,
     <<"ChanVariable", ": ", "k", "=", "a">>, <<"ChanVariable", ": ", "k", "=", "b">>,
     <<"ChanVariable", ": ", "j", "=", "a">>, <<"ChanVariable", ": ", "k", "=", "a", "=", "b">>,
     <<"ChanVariable", ": ", "plain">>, <<"DestChanVariable", ": ", "k", "=", "a">>,
     <<"DestChanVariable", ": ">>}

PacketInputs == UNION {[1..n -> HeaderLines] : n \in 1..MaxHeaders}

\* The packet as the server sends it: every line ends in CRLF, a blank line
\* ends the packet
PacketWire(in) == [i \in 1..Len(in) |-> in[i] \o <<CRLF>>] \o <<<<CRLF>>>>

PacketInit ==
    /\ SessionInit
    /\ handlers = [h \in HandlerNames |-> NoHandler]
    /\ tr_in \in PacketInputs
    /\ tr_out = NoTranslation
    /\ RegistryIdle

\* self._read_packet() with the lines of tr_in on the connection
ReadPacket ==
    /\ tr_out = NoTranslation
    /\ tr_out' = read_packet(PacketWire(tr_in))
    /\ UNCHANGED <<tr_in, session_vars, registry_vars>>

PacketNext == ReadPacket

PacketSpec == PacketInit /\ [][PacketNext]_vars

(* ------------- a Follows response and the packet behind it ------------- *)

\* What the server sends: the line "Response: Follows", the rest of the
\* Follows response, and behind it an event
NextOnWire == PacketWire(<<<<"Event", ": ", "Hangup">>>>)

Stream(in) ==
    <<<<"Response", ": ", "Follows", CRLF>>>> \o FollowsWire(in) \o NextOnWire

NoReads == [reads |-> <<>>]

StreamInit ==
    /\ SessionInit
    /\ handlers = [h \in HandlerNames |-> NoHandler]
    /\ tr_in \in FollowsInputs
    /\ tr_out = NoReads
    /\ RegistryIdle

\* self._read_packet() on what the calls before it left on the connection,
\* twice at most and not after a call that raised
ReadStream ==
    /\ LET done == tr_out.reads
           left == IF done = <<>> THEN Stream(tr_in) ELSE done[Len(done)].rest
       IN  /\ Len(done) < 2
           /\ done # <<>> => done[Len(done)].err = ""
           /\ tr_out' = [reads |-> Append(done, read_packet(left))]
    /\ UNCHANGED <<tr_in, session_vars, registry_vars>>

StreamNext == ReadStream

StreamSpec == StreamInit /\ [][StreamNext]_vars

(* ----------------------------- list actions ----------------------------- *)

\* A constructed session of CoreManager (no handlers), of Manager (the
\* placeholders of CoreEventHandlers and ZapataEventHandlers, no on_Event) or
\* of a subclass of CoreManager that defines on_Event only
ListHandlerNames ==
    UNION {Captured(op) : op \in ListActions} \cup {"Hangup", "Event"}

ListHandlerConfigs ==
    {[h \in ListHandlerNames |-> NoHandler],
     [h \in ListHandlerNames |-> IF h = "Event" THEN NoHandler ELSE "prior"],
     [h \in ListHandlerNames |-> IF h = "Event" THEN "prior" ELSE NoHandler]}

\* The state after a construction that succeeded: banner read, Login
\* written and accepted
Constructed ==
    /\ pc = "serving"
    /\ now = 0
    /\ written = <<write_action_id(0)>>
    /\ outstanding = <<>>
    /\ response_buffer = <<>>
    /\ undo = NoUndo
    /\ agg = <<>>
    /\ nread = 0
    /\ cur = NoCall
    /\ fate = <<>>
    /\ out = NoOut
    /\ banner_line = AST_BANNER
    /\ login_packet = [Response |-> "Success", Message |-> "Authentication accepted"]
    /\ init_error = ""
    /\ eof = FALSE
    /\ calls = <<>>
    /\ tr_in = NoPacket
    /\ tr_out = NoTranslation
    /\ RegistryIdle

ListInit == Constructed /\ handlers \in ListHandlerConfigs

\* What the server may send while list action op, written with ActionID id,
\* is in progress: the response to it, the body events of its result (one of
\* them twice with different fields, one without its key header, one
\* without ActionID), its terminator, and an event that has nothing to do
\* with it.
BodyPackets(op) ==
    CASE op = "Status" ->
            {[Event |-> "Status", Channel |-> ChanSIP, State |-> "Up"],
             [Event |-> "Status", Channel |-> ChanSIP, State |-> "Down"],
             [Event |-> "Status", State |-> "Up"]}
      [] op = "ParkedCalls" ->
            {[Event |-> "ParkedCall", Exten |-> "701", Channel |-> ChanSIP],
             [Event |-> "ParkedCall", Exten |-> "701", Channel |-> ChanZap],
             [Event |-> "ParkedCall", Channel |-> ChanSIP]}
      [] op = "QueueStatus" ->
            {[Event |-> "QueueParams", Queue |-> "support"],
             [Event |-> "QueueMember", Queue |-> "support", Location |-> ChanSIP],
             [Event |-> "QueueEntry", Queue |-> "support", Channel |-> ChanZap]}
      [] op = "ZapShowChannels" ->
            {[Event |-> "ZapShowChannels", Channel |-> ChanNumber]}

ListPackets(op, id) ==
    WithId({[Response |-> "Success"],
            [Response |-> "Error", Message |-> "Permission denied"],
            [Event |-> Terminator(op)]} \cup BodyPackets(op), {id})
        \cup {[Event |-> "Hangup"], [Event |-> CHOOSE e \in BodyEvents(op) : TRUE]}

\* A list action is called: _write_action, then read_response up to its
\* return or its first blocking read
CallList ==
    /\ pc = "serving"
    /\ Len(written) < MaxWrites
    /\ \E op \in ListActions, t \in Clock :
        /\ write_action(t)
        /\ LoopTop(Calling(op, write_action_id(t)), response_buffer)
    /\ fate' = Account(fate, out')
    /\ UNCHANGED <<nread, init_vars, eof, alone_vars>>

ListAwaitRead == AwaitReadOf(ListPackets(cur.op, cur.id), MaxListPackets)

ListPumpRead == PumpReadOf(ListPackets(cur.op, cur.id), MaxListPackets)

\* What the connection may hold when _read_packet raises instead of
\* returning a packet: nothing (end of file at a packet boundary), or a line
\* without ': '.  Once at end of file, the connection stays there.
EndOfFile == <<>>

FailingWires == {EndOfFile, <<<<"garbage", CRLF>>, <<CRLF>>>>}

\* What _read_packet then raises: GoneAwayError, ValueError ("key, val =
\* line.split(': ', 1)")
ReadErrors == {read_packet(w).err : w \in FailingWires}

\* The _read_packet of read_response raises, and the exception leaves the
\* action that awaits its response
AwaitFail ==
    /\ pc = "await"
    /\ \E w \in FailingWires :
        /\ eof => w = EndOfFile
        /\ eof' = (eof \/ w = EndOfFile)
        /\ Raises([Calling(cur.op, cur.id) EXCEPT !.by = "read_response"],
                  read_packet(w).err, "")
    /\ fate' = Account(fate, out')
    /\ UNCHANGED <<wire_vars, response_buffer, nread, init_vars, alone_vars>>

\* The _read_packet of the list action's loop raises: "finally:
\* self.undo_events(undo)", and the exception leaves the action
PumpFail ==
    /\ pc = "pump"
    /\ \E w \in FailingWires :
        /\ eof => w = EndOfFile
        /\ eof' = (eof \/ w = EndOfFile)
        /\ out' = [Calling(cur.op, cur.id) EXCEPT !.by = "pump", !.done = TRUE,
                                                  !.err = read_packet(w).err]
    /\ handlers' = undo_events(handlers, undo)
    /\ undo' = NoUndo
    /\ agg' = <<>>
    /\ pc' = "serving"
    /\ cur' = NoCall
    /\ fate' = Account(fate, out')
    /\ UNCHANGED <<wire_vars, outstanding, response_buffer, nread, init_vars, alone_vars>>

ListNext ==
    \/ CallList
    \/ ListAwaitRead
    \/ ListPumpRead
    \/ AwaitFail
    \/ PumpFail

ListSpec == ListInit /\ [][ListNext]_vars

(* ------------------- _write_action checked on its own ------------------- *)

\* The header maps callers give: dict displays, kept as the sequence of their
\* items [k, v] in the order they were inserted, no key twice; a value is a
\* string (possibly empty) or None.
HeaderKeys == {"a", "b", "c"}

HeaderValues == {None, "", "x"}

DataOf(n) ==
    {d \in [1..n -> [k : HeaderKeys, v : HeaderValues]] :
        \A i, j \in 1..n : i # j => d[i].k # d[j].k}

\* given = FALSE is data = None
WriteInputs ==
    [action : {"Ping"}, given : {FALSE}, items : {<<>>}]
        \cup [action : {"Ping"}, given : {TRUE},
              items : UNION {DataOf(n) : n \in 0..MaxData}]

\* data.iteritems(): the items of a dict in the order of its hash table, which
\* the language leaves open: every order of the items is one a build gives.
iteritems(items) ==
    LET n == Len(items)
        orders == {f \in [1..n -> 1..n] : \A i, j \in 1..n : i # j => f[i] # f[j]}
    IN  {[i \in 1..n |-> items[f[i]]] : f \in orders}

\* One line written: line + '\r\n', the line being '%s: %s' % (key, value)
header_line(key, value) == <<key, ": ", value, CRLF>>

\* The lines _write_action writes for id, order being the items as iteritems
\* yields them
write_lines(action, id, given, order) ==
    LET kept(item) == item.v # None
        sent == SelectSeq(order, kept)
    IN  <<header_line("Action", action), header_line("ActionID", id)>>
            \o (IF given
                THEN [i \in 1..Len(sent) |-> header_line(sent[i].k, sent[i].v)]
                ELSE <<>>)
            \o <<<<CRLF>>>>

WriteInit ==
    /\ SessionInit
    /\ handlers = [h \in HandlerNames |-> NoHandler]
    /\ tr_in \in WriteInputs
    /\ tr_out = NoTranslation
    /\ RegistryIdle

\* self._write_action(tr_in.action, data)
WriteLines ==
    /\ tr_out = NoTranslation
    /\ \E order \in iteritems(tr_in.items) :
        tr_out' = [id |-> write_action_id(now),
                   lines |-> write_lines(tr_in.action, write_action_id(now),
                                         tr_in.given, order)]
    /\ UNCHANGED <<tr_in, session_vars, registry_vars>>

WriteNext == WriteLines

WriteSpec == WriteInit /\ [][WriteNext]_vars

(* --------------------------- EventCollection ---------------------------- *)

\* Util.EventCollection: self.subscriptions maps an event name to the list of
\* the handlers subscribed to it, in the order of their subscription.
EventNames == {"Hangup", "Link"}

\* The callables subscribed: "h1" returns a value, "once" unsubscribes itself
\* from the event it is called for and returns a value, "bad" raises an error.
Handlers == {"h1", "once", "bad"}

Returned(h) == IF h = "h1" THEN "v1" ELSE IF h = "once" THEN "v3" ELSE None

\* subscription(*args, **kwargs) called by fire for event name: the error it
\* raises, the value it returns and the subscriptions it leaves.
call(h, subs, name) ==
    IF h = "bad"
    THEN [err |-> "HandlerError", ret |-> None, subs |-> subs]
    ELSE IF h = "once"
         THEN [err |-> "", ret |-> Returned(h),
               subs |-> Put(subs, name, RemoveFirst(subs[name], h))]
         ELSE [err |-> "", ret |-> Returned(h), subs |-> subs]

\* EventCollection.subscribe: [err, subs].  The list of a new name is made
\* before the duplicate test; a duplicate raises SubscriptionError with two
\* arguments.
subscribe(subs, name, handler) ==
    LET s1 == IF Has(subs, name) THEN subs ELSE Put(subs, name, <<>>)
    IN  IF \E i \in 1..Len(s1[name]) : s1[name][i] = handler
        THEN [err |-> Raise("SubscriptionError", 2), subs |-> s1]
        ELSE [err |-> "", subs |-> Put(s1, name, Append(s1[name], handler))]

\* EventCollection.unsubscribe: self.subscriptions[name].remove(handler)
unsubscribe(subs, name, handler) ==
    IF ~Has(subs, name)
    THEN [err |-> "KeyError", subs |-> subs]
    ELSE IF \A i \in 1..Len(subs[name]) : subs[name][i] # handler
         THEN [err |-> "ValueError", subs |-> subs]
         ELSE [err |-> "",
               subs |-> Put(subs, name, RemoveFirst(subs[name], handler))]

\* The loop of fire: "for subscription in self.subscriptions[name]" walks the
\* list itself by position, testing the position against the length the list
\* has at that moment; i is the position, invoked the handlers called so far,
\* ret the value of return_value.
RECURSIVE fire_loop(_, _, _, _, _)
fire_loop(subs, name, i, invoked, ret) ==
    IF i > Len(subs[name])
    THEN [err |-> "", ret |-> ret, invoked |-> invoked, subs |-> subs]
    ELSE LET h == subs[name][i]
             r == call(h, subs, name)
         IN  IF r.err # ""
             THEN [err |-> r.err, ret |-> None,
                   invoked |-> Append(invoked, h), subs |-> r.subs]
             ELSE fire_loop(r.subs, name, i + 1, Append(invoked, h), r.ret)

\* A fire that drops the handler that raised from the list of the event
fire_DropsRaiser(subs, name) ==
    IF ~Has(subs, name)
    THEN [err |-> "", ret |-> None, invoked |-> <<>>, subs |-> subs]
    ELSE LET r == fire_loop(subs, name, 1, <<>>, None)
         IN  IF r.err = ""
             THEN r
             ELSE [r EXCEPT !.subs =
                       Put(r.subs, name,
                           RemoveFirst(r.subs[name],
                                       r.invoked[Len(r.invoked)]))]

\* EventCollection.fire: [err, ret, invoked, subs]
fire(subs, name) ==
    IF ~Has(subs, name)
    THEN [err |-> "", ret |-> None, invoked |-> <<>>, subs |-> subs]
    ELSE fire_loop(subs, name, 1, <<>>, None)

\* The record of the last operation on the registry: the operation, its
\* arguments, the subscriptions before it, its error and, for fire, the
\* handlers it invoked and the value it returned.
Ev(op, name, h, r) ==
    [op |-> op, name |-> name, h |-> h, before |-> subscriptions,
     err |-> r.err, invoked |-> r.invoked, ret |-> r.ret]

NotFired(r) == [err |-> r.err, subs |-> r.subs, invoked |-> <<>>, ret |-> None]

Subscribe ==
    /\ \E name \in EventNames, h \in Handlers :
        LET r == subscribe(subscriptions, name, h)
        IN  /\ subscriptions' = r.subs
            /\ ev_out' = Ev("subscribe", name, h, NotFired(r))
    /\ UNCHANGED <<session_vars, tr_in, tr_out>>

Unsubscribe ==
    /\ \E name \in EventNames, h \in Handlers :
        LET r == unsubscribe(subscriptions, name, h)
        IN  /\ subscriptions' = r.subs
            /\ ev_out' = Ev("unsubscribe", name, h, NotFired(r))
    /\ UNCHANGED <<session_vars, tr_in, tr_out>>

\* EventCollection.clear
Clear ==
    /\ subscriptions' = NoSubscriptions
    /\ ev_out' = Ev("clear", None, None,
                    NotFired([err |-> "", subs |-> NoSubscriptions]))
    /\ UNCHANGED <<session_vars, tr_in, tr_out>>

Fire ==
    /\ \E name \in EventNames :
        LET r == fire(subscriptions, name)
        IN  /\ subscriptions' = r.subs
            /\ ev_out' = Ev("fire", name, None, r)
    /\ UNCHANGED <<session_vars, tr_in, tr_out>>

RegistryNext ==
    \/ Subscribe
    \/ Unsubscribe
    \/ Clear
    \/ Fire

RegistrySpec == Init /\ [][RegistryNext]_vars

(* --------------- list actions and events of other actions -------------- *)

\* An ActionID other than id: that of an action of another caller, or of an
\* earlier action
OtherId(id) == id + 1

\* What the server may send while list action op, written with ActionID id,
\* is in progress: the response to it, and the body events and the terminator
\* of its result, each with the ActionID id or with another one
OthersPackets(op, id) ==
    WithId({[Response |-> "Success"]}, {id})
        \cup WithId({[Event |-> Terminator(op)]} \cup BodyPackets(op),
                    {id, OtherId(id)})

OthersAwaitRead == AwaitReadOf(OthersPackets(cur.op, cur.id), MaxListPackets)

OthersPumpRead == PumpReadOf(OthersPackets(cur.op, cur.id), MaxListPackets)

OthersNext ==
    \/ CallList
    \/ OthersAwaitRead
    \/ OthersPumpRead

OthersSpec == ListInit /\ [][OthersNext]_vars

(* ---------------------- EventCollection += and -= ----------------------- *)

\* The collections given to += and -=: each event name absent or with a list
\* of at most one handler
Collections ==
    UNION {[names -> {<<>>} \cup {<<h>> : h \in Handlers}] :
                names \in SUBSET EventNames}

\* collection.subscriptions.items(): the names in the order of the dict's
\* hash table, any order being one a build gives
NameOrders(b) ==
    LET n == Cardinality(DOMAIN b)
    IN  {o \in [1..n -> DOMAIN b] : \A i, j \in 1..n : i # j => o[i] # o[j]}

\* The (name, handler) pairs the two nested loops of __iadd__ and __isub__
\* visit, the names in the order given
RECURSIVE pairs_of(_, _)
pairs_of(b, order) ==
    IF order = <<>> THEN <<>>
    ELSE [i \in 1..Len(b[Head(order)]) |->
                [name |-> Head(order), h |-> b[Head(order)][i]]]
            \o pairs_of(b, Tail(order))

\* The try block: self.subscribe (op "iadd") or self.unsubscribe (op "isub")
\* of every pair, up to the first that raises
RECURSIVE merge_loop(_, _, _)
merge_loop(subs, pairs, op) ==
    IF pairs = <<>> THEN [err |-> "", subs |-> subs]
    ELSE LET p == Head(pairs)
             r == IF op = "iadd" THEN subscribe(subs, p.name, p.h)
                  ELSE unsubscribe(subs, p.name, p.h)
         IN  IF r.err # "" THEN r ELSE merge_loop(r.subs, Tail(pairs), op)

\* EventCollection.copy: builds the copy and returns nothing
copy(subs) == None

\* "self.subscriptions = new.subscriptions" in the except block, left being
\* the subscriptions at that moment
restore(new, left) ==
    IF new = None
    THEN [err |-> "AttributeError", subs |-> left]
    ELSE [err |-> "", subs |-> new]

\* EventCollection.__iadd__ / __isub__ with an EventCollection as argument:
\* [err, cause, subs], cause being the error the try block raised and err
\* the one that reaches the caller
merge(subs, pairs, op) ==
    LET new == copy(subs)
        r == merge_loop(subs, pairs, op)
        u == restore(new, r.subs)
    IN  IF r.err = ""
        THEN [err |-> "", cause |-> "", subs |-> r.subs]
        ELSE [err |-> IF u.err # "" THEN u.err ELSE r.err,
              cause |-> r.err, subs |-> u.subs]

EvMerge(op, r) ==
    [op |-> op, before |-> subscriptions, err |-> r.err, cause |-> r.cause]

MergeOf(op) ==
    /\ \E b \in Collections : \E order \in NameOrders(b) :
        LET r == merge(subscriptions, pairs_of(b, order), op)
        IN  /\ subscriptions' = r.subs
            /\ ev_out' = EvMerge(op, r)
    /\ UNCHANGED <<session_vars, tr_in, tr_out>>

\* a += b
Iadd == MergeOf("iadd")

\* a -= b
Isub == MergeOf("isub")

MergeNext ==
    \/ Subscribe
    \/ Iadd
    \/ Isub

\* An empty collection beside a session not yet constructed
MergeInit == Init /\ handlers = [h \in HandlerNames |-> NoHandler]

MergeSpec == MergeInit /\ [][MergeNext]_vars

(* ------------------- an action issued by an event handler --------------- *)

\* A constructed session whose on_Hangup issues an action of its own:
\* "id = self._write_action(...); self.read_response(id)", on the same
\* session, while the read_response call that read the event is in progress.
\* The other names have the placeholder handlers or none.
ReentrantConfigs ==
    {[h \in HandlerNames |-> IF h = "Hangup" THEN "reenter" ELSE NoHandler],
     [h \in HandlerNames |-> IF h = "Hangup" THEN "reenter" ELSE "prior"]}

ReentrantInit == Constructed /\ handlers \in ReentrantConfigs

\* A read_response(id) call: st is "waiting" (in _read_packet), "handler"
\* (in _dispatch_packet, the handler not yet back), "returned" (n the arrival
\* number of the packet returned, orig the packet as it arrived) or "raised"
NewCall(id) == [id |-> id, st |-> "waiting", n |-> 0, orig |-> NoPacket, err |-> ""]

\* The top of read_response's loop for call c with the buffer buf: the call
\* after the scan, and the buffer
loop_top(c, buf) ==
    LET s == scan_buffer(buf, c.id) IN
    IF s.kind = "hit"
    THEN [call |-> [c EXCEPT !.st = "returned", !.n = buf[s.idx].n,
                             !.orig = buf[s.idx].p],
          buf |-> RemoveAt(buf, s.idx)]
    ELSE IF s.kind = "KeyError"
    THEN [call |-> [c EXCEPT !.st = "raised", !.err = "KeyError"], buf |-> buf]
    ELSE [call |-> [c EXCEPT !.st = "waiting"], buf |-> buf]

\* (after_dispatch_Reads: a variant of read_response that scans the buffer
\* once, before its loop, and goes from _dispatch_packet to the next read)
after_dispatch_Reads(c, buf) == [call |-> [c EXCEPT !.st = "waiting"], buf |-> buf]

\* read_response after "self._dispatch_packet(packet)" has come back: "while
\* True" goes round to the scan of the buffer
after_dispatch(c, buf) == loop_top(c, buf)

\* An exception leaves the innermost call: it leaves the handlers and the
\* read_response calls under it as well
propagate(cs, err) ==
    [i \in DOMAIN cs |->
        IF cs[i].st = "handler" THEN [cs[i] EXCEPT !.st = "raised", !.err = err]
        ELSE cs[i]]

\* The innermost call has returned to the handler that made it: the handler
\* returns, and the call that dispatched to it goes on, which may return in
\* its turn
RECURSIVE unwind(_, _)
unwind(cs, buf) ==
    LET hs == {i \in DOMAIN cs : cs[i].st = "handler"} IN
    IF hs = {} THEN [calls |-> cs, buf |-> buf]
    ELSE LET k == CHOOSE i \in hs : \A j \in hs : j <= i
             r == after_dispatch(cs[k], buf)
             cs1 == [cs EXCEPT ![k] = r.call]
         IN  IF r.call.st = "returned" THEN unwind(cs1, r.buf)
             ELSE IF r.call.st = "raised"
             THEN [calls |-> propagate(cs1, r.call.err), buf |-> r.buf]
             ELSE [calls |-> cs1, buf |-> r.buf]

\* The call that is waiting: the innermost
Waiting(cs) == {i \in DOMAIN cs : cs[i].st = "waiting"}

\* What the server may send: the responses to the actions written, a
\* response without ActionID, the event whose handler issues an action (as
\* long as MaxCalls allows another call) and another event
ReentrantPackets(cs) ==
    WithId({[Response |-> "Success"]}, {cs[i].id : i \in DOMAIN cs})
        \cup {[Response |-> "Success"], [Event |-> "Status", Channel |-> ChanSIP]}
        \cup (IF Len(cs) < MaxCalls THEN {[Event |-> "Hangup"]} ELSE {})

\* The waiting call k reads packet number n, p, with the clock at t should an
\* action be written: up to the next blocking read or the end of the
\* outermost call.  wrote: the handler wrote an action.
read_in_call(cs, k, buf, p, n, t, hs) ==
    LET c == classify(p, cs[k].id)
        d == dispatch_packet(p, n, buf, hs, <<>>)
    IN  IF c = "return"
        THEN LET r == unwind([cs EXCEPT ![k].st = "returned", ![k].n = n,
                                        ![k].orig = p], buf)
             IN  [calls |-> r.calls, buf |-> r.buf, wrote |-> FALSE]
        ELSE IF c = "buffer"
        THEN [calls |-> cs, buf |-> Append(buf, [n |-> n, p |-> p]), wrote |-> FALSE]
        ELSE IF c = "raise"
        THEN [calls |-> propagate([cs EXCEPT ![k].st = "raised",
                                             ![k].err = Raise("CommunicationError", 2)],
                                  Raise("CommunicationError", 2)),
              buf |-> buf, wrote |-> FALSE]
        ELSE IF d.err # ""
        THEN [calls |-> propagate([cs EXCEPT ![k].st = "raised", ![k].err = d.err],
                                  d.err),
              buf |-> d.buffer, wrote |-> FALSE]
        ELSE IF d.h = "reenter"
        THEN LET inner == loop_top(NewCall(write_action_id(t)), d.buffer)
                 cs1 == Append([cs EXCEPT ![k].st = "handler"], inner.call)
                 r == IF inner.call.st = "returned" THEN unwind(cs1, inner.buf)
                      ELSE IF inner.call.st = "raised"
                      THEN [calls |-> propagate(cs1, inner.call.err), buf |-> inner.buf]
                      ELSE [calls |-> cs1, buf |-> inner.buf]
             IN  [calls |-> r.calls, buf |-> r.buf, wrote |-> TRUE]
        ELSE LET r == unwind([cs EXCEPT ![k].st = "handler"], d.buffer)
             IN  [calls |-> r.calls, buf |-> r.buf, wrote |-> FALSE]

\* The caller issues an action: _write_action, then read_response up to its
\* first blocking read
CallOuter ==
    /\ pc = "serving"
    /\ calls = <<>>
    /\ \E t \in Clock :
        LET r == loop_top(NewCall(write_action_id(t)), response_buffer) IN
        /\ write_action(t)
        /\ calls' = <<r.call>>
        /\ response_buffer' = r.buf
        /\ pc' = IF Waiting(calls') # {} THEN "await" ELSE "serving"
    /\ UNCHANGED <<outstanding, handlers, undo, agg, nread, cur, fate, out, init_vars,
                   eof, tr_in, tr_out, registry_vars>>

\* The call that waits reads a packet
ReentrantRead ==
    /\ pc = "await"
    /\ nread < MaxListPackets
    /\ \E k \in Waiting(calls), p \in ReentrantPackets(calls), t \in Clock :
        LET r == read_in_call(calls, k, response_buffer, p, nread + 1, t, handlers) IN
        /\ calls' = r.calls
        /\ response_buffer' = r.buf
        /\ IF r.wrote THEN write_action(t) ELSE UNCHANGED wire_vars
        /\ pc' = IF Waiting(calls') # {} THEN "await" ELSE "serving"
    /\ nread' = nread + 1
    /\ UNCHANGED <<outstanding, handlers, undo, agg, cur, fate, out, init_vars,
                   eof, tr_in, tr_out, registry_vars>>

ReentrantNext ==
    \/ CallOuter
    \/ ReentrantRead

ReentrantSpec == ReentrantInit /\ [][ReentrantNext]_vars

(* ------------------------ waiting for a response ------------------------ *)

\* A constructed session whose caller calls Ping, and the reads of
\* read_response.  The caller who can call does so in the end; whether a
\* packet arrives is up to the server, so nothing obliges AwaitRead to
\* happen: _read_packet blocks in file.readline(), and neither it nor
\* read_response has a step that ends the wait (no timeout is set on the
\* socket, no clock is read).
WaitNext ==
    \/ CallPing
    \/ AwaitRead

WaitSpec == ListInit /\ [][WaitNext]_vars /\ WF_vars(CallPing)

(* -------------------------------- close --------------------------------- *)

\* What the server may send while close waits: the packets of every other
\* read, and the answer to Logoff, with or without an ActionID
GoodbyePackets(ids) ==
    {[Response |-> "Goodbye", Message |-> "Thanks for all the fish."]} \cup
    WithId({[Response |-> "Goodbye", Message |-> "Thanks for all the fish."]}, ids)

ClosePackets == Packets \cup GoodbyePackets(SentIds)

\* close after "packet = self._read_packet(discard_events = True)", which
\* returns the next packet whatever it is (_read_packet never looks at
\* discard_events): "" when close goes on to self.file.close(), otherwise the
\* exception raised; "packet.Response" raises KeyError on a packet without
\* that header.
close_outcome_AnyResponse(p) ==
    IF ~Has(p, "Response") THEN "KeyError" ELSE ""

close_outcome(p) ==
    IF ~Has(p, "Response") THEN "KeyError"
    ELSE IF p["Response"] # "Goodbye" THEN Raise("CommunicationError", 2)
    ELSE ""

\* close is called: Logoff is written, and close blocks in _read_packet
CallClose ==
    /\ pc = "serving"
    /\ Len(written) < MaxWrites
    /\ \E t \in Clock :
        /\ write_action(t)
        /\ cur' = [op |-> "close", id |-> write_action_id(t), hs |-> handlers]
        /\ out' = Calling("close", write_action_id(t))
    /\ pc' = "closing"
    /\ fate' = Account(fate, out')
    /\ UNCHANGED <<outstanding, response_buffer, handlers, undo, agg, nread, init_vars,
                   eof, alone_vars>>

\* close's _read_packet returns packet p: the rest of close
CloseRead ==
    /\ pc = "closing"
    /\ nread < MaxPackets
    /\ \E p \in ClosePackets :
        LET n == nread + 1
            err == close_outcome(p)
            o == [Calling("close", cur.id) EXCEPT !.by = "close", !.n = n, !.pkt = p,
                                                  !.done = TRUE, !.err = err]
        IN
        /\ nread' = n
        /\ pc' = IF err = "" THEN "closed" ELSE "serving"
        /\ out' = [o EXCEPT !.route = IF err = "" THEN "close" ELSE "raise"]
    /\ cur' = NoCall
    /\ fate' = Account(fate, out')
    /\ UNCHANGED <<wire_vars, outstanding, response_buffer, handlers, undo, agg,
                   init_vars, eof, alone_vars>>

\* The operations whose first use of the connection is a write to self.file
\* (_write_action) or a read from it (_read_packet)
WritingCalls == {"write", "Ping", "Status", "close"}

ReadingCalls == {"read", "serve_forever"}

\* What a write to or a read from self.file raises once close has closed it;
\* which one depends on the file object of the Python in use.
ClosedFileErrors == {"ValueError", "AttributeError"}

\* self.file.write on the closed file: the exception leaves _write_action
\* before anything reaches the connection.
closed_file_write_Sends(w, id) == Append(w, id)

closed_file_write(w, id) == w

\* self.file.readline on the closed file: no packet is read.
closed_file_read(k) == k

\* An operation is called on the session after close has completed
UseClosed ==
    /\ pc = "closed"
    /\ \E op \in WritingCalls \cup ReadingCalls, e \in ClosedFileErrors, t \in Clock :
        /\ out' = [Calling(op, -1) EXCEPT !.done = TRUE, !.err = e]
        /\ written' = IF op \in WritingCalls
                      THEN closed_file_write(written, write_action_id(t))
                      ELSE written
        /\ nread' = IF op \in ReadingCalls THEN closed_file_read(nread) ELSE nread
    /\ UNCHANGED <<pc, now, outstanding, response_buffer, handlers, undo, agg, cur, fate,
                   init_vars, eof, alone_vars>>

CloseNext ==
    \/ ReadBanner
    \/ ReadLoginResponse
    \/ WriteAction
    \/ Read
    \/ CallClose
    \/ CloseRead
    \/ UseClosed

CloseSpec == Init /\ [][CloseNext]_vars

(* ------------------------------ properties ------------------------------ *)

\* Packet number n is in the response buffer
InBuffer(n) == \E i \in 1..Len(response_buffer) : response_buffer[i].n = n

\* C1: the packet read_response(id) returns arrived carrying an ActionID, and
\* that ActionID equals id, which is an id _write_action returned (it was
\* written to the socket); a packet carrying another ActionID is never
\* returned.
C1_ReturnedMatchesId ==
    out.rn # 0 =>
        /\ Has(out.orig, "ActionID")
        /\ out.orig["ActionID"] = out.id
        /\ \E i \in 1..Len(written) : written[i] = out.id

\* C1 happens: read_response returns a buffered packet to its caller while a
\* packet that arrived earlier with another action's ActionID stays buffered
\* and that action is still outstanding.
C1_OutOfOrderReturn ==
    /\ out.op = "read_response"
    /\ out.rn # 0
    /\ out.n = 0
    /\ \E i \in 1..Len(response_buffer) :
          /\ response_buffer[i].n < out.rn
          /\ Has(response_buffer[i].p, "ActionID")
          /\ response_buffer[i].p["ActionID"] # out.id
          /\ \E j \in 1..Len(outstanding) :
                outstanding[j] = response_buffer[i].p["ActionID"]

\* C2 as stated: any two actions written on the connection carry different
\* ActionID values.
C2_UniqueActionIDs ==
    \A i, j \in 1..Len(written) : i # j => written[i] # written[j]

\* C3 as stated: every packet read after login is dispatched exactly once: it
\* was returned by read_response once, or it waits in the response buffer, or
\* it was passed to exactly one handler invocation; never two of these.
C3_ExactlyOnce ==
    \A n \in 1..Len(fate) :
        \/ fate[n].ret = 1 /\ fate[n].ev = 0 /\ ~InBuffer(n)
        \/ fate[n].ret = 0 /\ fate[n].ev = 0 /\ InBuffer(n)
        \/ fate[n].ret = 0 /\ fate[n].ev = 1 /\ ~InBuffer(n)

\* C3, amended: every packet read after login is dispatched at most once: it
\* was returned by read_response once, or it waits (once) in the response
\* buffer, or it was passed to exactly one handler invocation, never two of
\* these; it is dispatched to nobody exactly when the call that read it
\* raised before dispatching it, which ended that call.
C3_AtMostOnce ==
    /\ Len(fate) = nread
    /\ \A i, j \in 1..Len(response_buffer) :
            i # j => response_buffer[i].n # response_buffer[j].n
    /\ \A n \in 1..Len(fate) :
        \/ fate[n].ret = 1 /\ fate[n].ev = 0 /\ fate[n].rej = 0 /\ ~InBuffer(n)
        \/ fate[n].ret = 0 /\ fate[n].ev = 0 /\ fate[n].rej = 0 /\ InBuffer(n)
        \/ fate[n].ret = 0 /\ fate[n].ev = 1 /\ fate[n].rej = 0 /\ ~InBuffer(n)
        \/ fate[n].ret = 0 /\ fate[n].ev = 0 /\ fate[n].rej = 1 /\ ~InBuffer(n)
    /\ out.route = "raise" => out.done /\ out.err # "" /\ fate[out.n].rej = 1

\* C3 happens: one packet was passed to a handler, and read_response returns
\* another one that had been placed in the response buffer.
C3_HandledAndReturned ==
    /\ out.rn # 0
    /\ out.n = 0
    /\ fate[out.rn].ret = 1
    /\ \E n \in 1..Len(fate) : fate[n].ev = 1

\* The packet the last step read is a response that carries an ActionID other
\* than the one its reader awaits: it was read by read(), by serve_forever()
\* or by a list action's loop, or by read_response for another id.
UnawaitedResponse ==
    /\ out.n # 0
    /\ Has(out.pkt, "Response")
    /\ Has(out.pkt, "ActionID")
    /\ ~(out.by = "read_response" /\ out.pkt["ActionID"] = out.id)

\* The buffer buf without packet number n
Without(buf, n) == SelectSeq(buf, LAMBDA e : e.n # n)

\* C4: a Response packet whose ActionID is not the one awaited is appended to
\* the response buffer when it is read, and the packets in the buffer stay
\* there, in their order and ahead of later ones, each until a read_response
\* call for the ActionID it carries returns it.
C4_BufferedUntilConsumed ==
    /\ [](UnawaitedResponse =>
            /\ out.route = "buffer"
            /\ response_buffer # <<>>
            /\ response_buffer[Len(response_buffer)] = [n |-> out.n, p |-> out.pkt])
    /\ [][/\ Len(response_buffer') >= Len(Without(response_buffer, out'.rn))
          /\ SubSeq(response_buffer', 1, Len(Without(response_buffer, out'.rn)))
                = Without(response_buffer, out'.rn)
          /\ \A i \in 1..Len(response_buffer) :
                response_buffer[i].n = out'.rn =>
                    /\ out'.orig = response_buffer[i].p
                    /\ Has(out'.orig, "ActionID")
                    /\ out'.id = out'.orig["ActionID"]]_vars

\* C4 happens: while read_response waits for one ActionID, a response that
\* carries another one is read and appended behind a packet buffered before.
C4_BufferedWhileAwaiting ==
    /\ UnawaitedResponse
    /\ out.by = "read_response"
    /\ pc = "await"
    /\ Len(response_buffer) = 2

\* A packet that carries an Event header and no Response header
IsEvent(p) == Has(p, "Event") /\ ~Has(p, "Response")

C6_NoActionIDKey ==
    out.rn # 0 =>
        /\ ~Has(out.p, "ActionID")
        /\ \A k \in DOMAIN out.orig \ {"ActionID"} :
              Has(out.p, k) /\ out.p[k] = out.orig[k]
        /\ DOMAIN out.p \subseteq DOMAIN out.orig

\* C6 happens: read_response returns the packet it has just read from the
\* socket, after one from the buffer was returned to an earlier call.
C6_DirectAfterBuffered ==
    /\ out.rn # 0
    /\ out.n = out.rn
    /\ Has(out.orig, "ActionID")
    /\ \E m \in 1..Len(fate) : m # out.rn /\ fate[m].ret = 1

\* C7 as stated: _translate_response returns the packet if and only if its
\* Response is Success, Follows or Pong; otherwise it raises PermissionDenied
\* when Message is "Permission denied" and ActionFailed carrying Message when
\* it is anything else.
C7_TranslateResponse ==
    (tr_out # NoTranslation /\ Has(tr_in, "Response")) =>
        IF tr_in["Response"] \in {"Success", "Follows", "Pong"}
        THEN tr_out.err = "" /\ tr_out.p = TranslateChannels(tr_in)
        ELSE /\ tr_out.err # ""
             /\ Has(tr_in, "Message") =>
                    IF tr_in["Message"] = "Permission denied"
                    THEN tr_out.err = "PermissionDenied"
                    ELSE tr_out.err = "ActionFailed" /\ tr_out.msg = tr_in["Message"]

\* The last step ended a Ping or Status call at the return of its
\* read_response: with the value or the exception of _translate_response.
ActionEnded(o) == o.done /\ o.rn # 0 /\ o.op \in {"Ping", "Status"}

\* C8: the step in which an action ends at its response, by ActionFailed
\* (or any other exception of _translate_response) as by a successful
\* return, leaves the session serving with no call in progress, the event
\* handlers and the other callers' outstanding ids as they were, and the
\* response buffer as it was but for the packet returned; and a packet
\* returned after a failure carries the ActionID of the call it is returned
\* to.
C8_FailureLeavesSessionUsable ==
    /\ [][ActionEnded(out') =>
            /\ pc' = "serving"
            /\ cur' = NoCall
            /\ handlers' = handlers
            /\ undo' = undo
            /\ outstanding' = outstanding
            /\ response_buffer' = Without(response_buffer, out'.rn)]_vars
    /\ []((out.rn # 0 /\ \E m \in 1..Len(fate) : m # out.rn /\ fate[m].fail # "") =>
            (Has(out.orig, "ActionID") /\ out.orig["ActionID"] = out.id))

\* C8 happens: an action failed with ActionFailed, and the Ping written after
\* it returns its own successful response.
C8_PingAfterActionFailed ==
    /\ ActionEnded(out)
    /\ out.op = "Ping"
    /\ out.err = ""
    /\ out.id = written[Len(written)]
    /\ out.orig["ActionID"] = out.id
    /\ \E m \in 1..Len(fate) : m # out.rn /\ fate[m].fail = "ActionFailed"

\* C9 as stated: when the packet read after Login has Response Error,
\* construction fails with AuthenticationFailure and the session is not
\* serving; when it has Response Success, the session is constructed.
C9_LoginOutcome ==
    (login_packet # NoPacket /\ Has(login_packet, "Response")) =>
        /\ login_packet["Response"] = "Error" =>
                pc = "failed" /\ init_error = "AuthenticationFailure"
        /\ login_packet["Response"] = "Success" =>
                pc # "failed" /\ init_error = ""

\* C10: Login is written only after the first line read was found equal to
\* the banner; when the first line differs from it in any way, construction
\* fails with the banner error, nothing has been written, and nothing is
\* written afterwards.
C10_BannerBeforeLogin ==
    /\ written # <<>> => banner_line = AST_BANNER
    /\ (banner_line # "(not read)" /\ banner_line # AST_BANNER) =>
            /\ pc = "failed"
            /\ init_error = "Exception"
            /\ written = <<>>
            /\ login_packet = NoPacket

\* C10 happens: the first line is the banner but for its line ending, and
\* construction has failed with nothing written.
C10_NearBannerRefused ==
    /\ banner_line = "Asterisk Call Manager/1.0\n"
    /\ pc = "failed"
    /\ written = <<>>

\* The step is close's read of one packet
CloseStep(o) == o.op = "close" /\ o.by = "close" /\ o.n # 0

\* C11: an Event packet that arrives while close waits for the answer to
\* Logoff is discarded: it is no cause of failure, and close goes on
\* waiting for the Goodbye.
C11_EventDiscardedDuringClose ==
    (CloseStep(out) /\ IsEvent(out.pkt)) => (out.err = "" /\ pc = "closing")

\* C12: close closes the file only in the step in which it has read a packet
\* whose Response is Goodbye, and a packet with any other Response makes it
\* raise CommunicationError, the file left open.
C12_ClosedOnlyAfterGoodbye ==
    /\ [](CloseStep(out) =>
            IF Has(out.pkt, "Response") /\ out.pkt["Response"] = "Goodbye"
            THEN pc = "closed" /\ out.err = ""
            ELSE /\ pc = "serving"
                 /\ Has(out.pkt, "Response") => out.err = "CommunicationError")
    /\ [][(pc # "closed" /\ pc' = "closed") =>
            (CloseStep(out') /\ out'.pkt["Response"] = "Goodbye")]_vars

\* close completed at a Goodbye after a packet the session had refused
C12_ClosedAfterRefusal ==
    /\ pc = "closed"
    /\ CloseStep(out)
    /\ out.pkt["Response"] = "Goodbye"
    /\ \E n \in 1..Len(fate) : fate[n].rej = 1

EventStep(o) == o.n # 0 /\ IsEvent(o.pkt)

\* C14: an event that reached no handler, because neither on_<Event> nor
\* on_Event exists, is dropped: the step that read it raises nothing.
C14_UnhandledEventDropped ==
    (EventStep(out) /\ out.route # "handler") => out.err = ""

\* The header, if the packet has it, went to the handler as a channel object
\* made from the identifier the packet carried
ChannelTranslated(o, k) ==
    Has(o.pkt, k) =>
        /\ o.arg[k] \in [class : {"BaseChannel", "ZapChannel"}, channel_id : {o.pkt[k]}]

\* C15: an event named E goes to on_E when on_E exists, and then not to
\* on_Event; to on_Event when on_E does not exist and on_Event does; the
\* handler is invoked once, in the step that read the event, with the
\* packet's other headers as they arrived and its Channel, Channel1 and
\* Channel2 headers translated to channel objects.
C15_HandlerChoice ==
    [][EventStep(out') =>
        LET E == out'.pkt["Event"]
            specific == getattr_on(handlers, E)
            global == getattr_on(handlers, "Event")
            invoked == /\ out'.route = "handler"
                       /\ fate'[out'.n].ev = 1
                       /\ DOMAIN out'.arg = DOMAIN out'.pkt
                       /\ \A i \in 1..Len(ChannelKeys) : ChannelTranslated(out', ChannelKeys[i])
                       /\ \A k \in DOMAIN out'.pkt :
                            (\A i \in 1..Len(ChannelKeys) : ChannelKeys[i] # k)
                                => out'.arg[k] = out'.pkt[k]
        IN  /\ specific # NoHandler =>
                (invoked /\ out'.attr = E /\ out'.h = specific)
            /\ (specific = NoHandler /\ global # NoHandler) =>
                (invoked /\ out'.attr = "Event" /\ out'.h = global)
            /\ (specific = NoHandler /\ global = NoHandler) => out'.route # "handler"]_vars

\* An event with a Channel header went to its own handler although the
\* session also has an on_Event
C15_SpecificBeforeGlobal ==
    /\ EventStep(out)
    /\ Has(out.pkt, "Channel")
    /\ out.route = "handler"
    /\ out.attr = out.pkt["Event"]
    /\ out.h = "prior"
    /\ getattr_on(handlers, "Event") # NoHandler

\* C16: every reading path hands an event to _dispatch_packet in the step
\* that read it, before the next packet is read: no event waits in the
\* buffer, and no packet read earlier reaches a handler later.  Handlers
\* thus run in the order of arrival.
C16_EventsInArrivalOrder ==
    /\ [][EventStep(out') =>
            /\ nread' = nread + 1
            /\ out'.n = nread'
            /\ out'.route \in {"handler", "raise"}]_vars
    /\ [][\A n \in 1..Len(fate) : fate'[n].ev = fate[n].ev]_vars
    /\ [](\A i \in 1..Len(response_buffer) : ~IsEvent(response_buffer[i].p))

\* Two events reached handlers one after the other, the second while an
\* action awaited its response
C16_TwoEventsHandled ==
    /\ Len(fate) = 2
    /\ fate[1].ev = 1
    /\ fate[2].ev = 1
    /\ out.by = "read_response"
    /\ out.route = "handler"

\* C17: from the installation of a list action's temporary handlers to its
\* end every name it captures is looked up as its temporary handler, and an
\* event of such a name read meanwhile is handed to that handler: not to the
\* handler the name had before, and not to on_Event.
C17_CapturedEventsDiverted ==
    /\ [](pc = "pump" =>
            \A name \in Captured(cur.op) : getattr_on(handlers, name) = "temp")
    /\ [][(pc = "pump" /\ EventStep(out') /\ out'.pkt["Event"] \in Captured(cur.op)) =>
            /\ out'.route = "handler"
            /\ out'.attr = out'.pkt["Event"]
            /\ out'.h = "temp"]_vars

\* A body event went to the temporary handler of a name that had a handler
\* when the action was called
C17_DivertedFromPrior ==
    /\ pc = "pump"
    /\ out.by = "pump"
    /\ out.route = "handler"
    /\ out.h = "temp"
    /\ out.attr \in BodyEvents(cur.op)
    /\ getattr_on(cur.hs, out.attr) = "prior"

KeyHeader(map) ==
    CASE map = "channels" -> "Channel"
      [] map = "parked" -> "Exten"
      [] map = "queues" -> "Queue"
      [] map = "members" -> "Location"
      [] map = "entries" -> "Channel"

\* C19: no record stored in a list action's result has an Event header, an
\* ActionID header, or the header its dict is keyed by.
C19_RecordsStripped ==
    \A i \in 1..Len(agg) :
        /\ ~Has(agg[i].val, "Event")
        /\ ~Has(agg[i].val, "ActionID")
        /\ ~Has(agg[i].val, KeyHeader(agg[i].map))

\* C20: Status and ParkedCalls return in the step that dispatched their
\* terminator, and the map they return has one key for each key-header value
\* the body events carried.
C20_OneKeyPerValue ==
    (out.done /\ out.err = "" /\ out.op \in {"Status", "ParkedCalls"} /\ out.by = "pump") =>
        /\ out.attr = Terminator(out.op)
        /\ \A i, j \in 1..Len(out.val) : out.val[i].key = out.val[j].key => i = j

\* C21: called with a channel, Originate writes its action if and only if
\* exactly one calling style is supplied, context with extension and
\* priority or else application; otherwise it raises ActionFailed and
\* writes nothing.
C21_OriginateOneStyle ==
    (tr_out # NoTranslation /\ tr_in.channel \notin {None, ""}) =>
        LET dialplan == None \notin {tr_in.context, tr_in.extension, tr_in.priority}
            application == tr_in.application # None
        IN  IF dialplan # application
            THEN tr_out.err = "" /\ tr_out.w.action = "Originate"
            ELSE tr_out.err = "ActionFailed" /\ tr_out.w = NoWrite

\* C22: the Lines of a parsed Follows response are the lines of the body the
\* server sent, one for one and in order, whatever the lines hold (empty
\* lines included) as long as none is the end marker.
C22_LinesEqualBody ==
    tr_out # NoTranslation => tr_out.packet["Lines"] = tr_in.body

\* C23: an ActionID line right after "Response: Follows" becomes the
\* packet's ActionID and no element of Lines, so that the Command that wrote
\* this ActionID is handed the packet and returns the body lines.
C23_ActionIDLifted ==
    (tr_out # NoTranslation /\ tr_in.id # None) =>
        /\ Has(tr_out.packet, "ActionID")
        /\ tr_out.packet["ActionID"] = tr_in.id
        /\ \A i \in 1..Len(tr_out.packet["Lines"]) :
                ~startswith_ActionID(tr_out.packet["Lines"][i])
        /\ tr_out.command.mine
        /\ tr_out.command.err = ""
        /\ tr_out.command.lines = tr_in.body

\* The values header name h has in the lines sent, in order
ValuesOf(in, h) ==
    LET ls == SelectSeq(in, LAMBDA l : l[1] = h) IN
    [i \in 1..Len(ls) |-> rstrip(SubSeq(ls[i], 3, Len(ls[i])))]

\* The two sides of a value of the form k=v: what is before its first '=',
\* and all that is after it
Sides(value) ==
    LET i == Min(Positions(value, "=")) IN
    [k |-> SubSeq(value, 1, i - 1), v |-> SubSeq(value, i + 1, Len(value))]

\* C24: when every ChanVariable and DestChanVariable of a packet has a
\* value of the form k=v, the parsed packet's field for each is a mapping
\* whose keys are the left-hand sides sent, each mapped to the right-hand
\* side of its last occurrence; any other header has the value of its last
\* occurrence.
C24_RepeatedHeaders ==
    tr_out # NoTranslation =>
        \A h \in {"Event", "ChanVariable", "DestChanVariable"} :
            LET vs == ValuesOf(tr_in, h)
                last(k) == CHOOSE i \in 1..Len(vs) :
                              /\ Sides(vs[i]).k = k
                              /\ \A j \in 1..Len(vs) : Sides(vs[j]).k = k => j <= i
            IN  IF vs = <<>> THEN TRUE
                ELSE IF h \notin MULTI_VALUE_FIELD
                THEN tr_out.err = "" => tr_out.packet[h] = vs[Len(vs)]
                ELSE (\A m \in MULTI_VALUE_FIELD : \A i \in 1..Len(ValuesOf(tr_in, m)) :
                            Positions(ValuesOf(tr_in, m)[i], "=") # {}) =>
                        /\ tr_out.err = ""
                        /\ DOMAIN tr_out.packet[h] = {Sides(vs[i]).k : i \in 1..Len(vs)}
                        /\ \A k \in DOMAIN tr_out.packet[h] :
                                tr_out.packet[h][k] = Sides(vs[last(k)]).v

\* C25: when the connection reaches end of file while an action awaits its
\* response or a list action is in its loop, the call ends in that step
\* with GoneAwayError and no packet; from then on no packet is read or
\* handed to a handler, and every call that waits ends the same way.
C25_GoneAwayAtEndOfFile ==
    /\ [][(pc \in {"await", "pump"} /\ eof') =>
            /\ out'.done
            /\ out'.err = "GoneAwayError"
            /\ out'.n = 0
            /\ out'.rn = 0
            /\ pc' = "serving"
            /\ cur' = NoCall]_vars
    /\ [][eof =>
            /\ eof'
            /\ nread' = nread
            /\ \A n \in 1..Len(fate) : fate'[n].ev = fate[n].ev]_vars

\* An action that awaited its response ended with GoneAwayError at end of
\* file, after packets had been read
C25_AwaiterGoneAway ==
    /\ eof
    /\ out.done
    /\ out.by = "read_response"
    /\ out.err = "GoneAwayError"
    /\ nread > 0

\* C26: every action call ends: an action that awaits its response stops
\* waiting, by its return or by an error, even when the server never sends
\* the response.
C26_EveryCallEnds == (pc = "await") ~> (pc # "await")

\* The handlers subscribed to name in subs, in their order
ListOf(subs, name) == IF Has(subs, name) THEN subs[name] ELSE <<>>

\* s holds x
In(s, x) == \E i \in 1..Len(s) : s[i] = x

\* The operation recorded in ev_out was op
EvWas(op) == ev_out # NoEv /\ ev_out.op = op

\* The last operation was a subscribe of a handler already subscribed to
\* that name
DuplicateSubscribe ==
    /\ EvWas("subscribe")
    /\ In(ListOf(ev_out.before, ev_out.name), ev_out.h)

\* C27: subscribe(name, handler) of a handler already subscribed to name
\* fails with SubscriptionError and leaves the registry unchanged.
C27_DuplicateRefused ==
    DuplicateSubscribe =>
        /\ ev_out.err = "SubscriptionError"
        /\ subscriptions = ev_out.before

\* C28: a fire that ends without error has invoked every handler subscribed
\* to the name once, in the order of subscription, and has returned the
\* value of the last one (no value when there is none).
C28_FireAllInOrder ==
    (EvWas("fire") /\ ev_out.err = "") =>
        LET subscribed == ListOf(ev_out.before, ev_out.name)
        IN  /\ ev_out.invoked = subscribed
            /\ ev_out.ret = IF subscribed = <<>> THEN None
                             ELSE Returned(subscribed[Len(subscribed)])

\* The last operation was a fire in which a handler raised, no handler
\* invoked in it having changed the subscriptions itself
RaisedInFire ==
    /\ EvWas("fire")
    /\ ev_out.err # ""
    /\ ~In(ev_out.invoked, "once")

\* C29: when a handler raises during fire, the handlers invoked are those up
\* to and including it and none after it, the error reaches the caller, and
\* the subscriptions are what they were.
C29_FireAborted ==
    RaisedInFire =>
        LET subscribed == ListOf(ev_out.before, ev_out.name)
            n == Len(ev_out.invoked)
        IN  /\ n >= 1 /\ n <= Len(subscribed)
            /\ ev_out.invoked = SubSeq(subscribed, 1, n)
            /\ ev_out.invoked[n] = "bad"
            /\ ev_out.err = "HandlerError"
            /\ subscriptions = ev_out.before

\* A handler raised in a fire with a handler subscribed after it
C29_RaisedBeforeLast ==
    /\ RaisedInFire
    /\ Len(ev_out.invoked) < Len(ListOf(ev_out.before, ev_out.name))

\* The items of the map given to _write_action whose value is not None, in
\* the order of their insertion
SpecifiedItems ==
    LET specified(item) == item.v # None
    IN  SelectSeq(tr_in.items, specified)

\* C30: _write_action writes the Action line first, the ActionID line
\* second, then one line per header whose value is not None (the empty string
\* included) in the insertion order of the map, then one blank line.
C30_LinesInMapOrder ==
    (tr_out # NoTranslation) =>
        LET lines == tr_out.lines
            n == Len(SpecifiedItems)
        IN  /\ Len(lines) = n + 3
            /\ lines[1] = <<"Action", ": ", tr_in.action, CRLF>>
            /\ lines[2] = <<"ActionID", ": ", tr_out.id, CRLF>>
            /\ \A i \in 1..n :
                    lines[i + 2] = <<SpecifiedItems[i].k, ": ",
                                     SpecifiedItems[i].v, CRLF>>
            /\ lines[n + 3] = <<CRLF>>

\* Packet number i of the buffer buf is a response to the action id
Answers(buf, i, id) == Has(buf[i].p, "ActionID") /\ buf[i].p["ActionID"] = id

\* C31: a read_response(id) that starts with a response to id in the buffer
\* returns such a packet without reading from the connection, and takes that
\* packet and no other out of the buffer, the others keeping their order.
C31_BufferedResponseReturned ==
    [][(/\ pc = "serving"
        /\ out'.op = "read_response"
        /\ \E i \in 1..Len(response_buffer) :
                Answers(response_buffer, i, out'.id))
        => /\ out'.done
           /\ out'.err = ""
           /\ nread' = nread
           /\ \E i \in 1..Len(response_buffer) :
                /\ Answers(response_buffer, i, out'.id)
                /\ out'.rn = response_buffer[i].n
                /\ out'.orig = response_buffer[i].p
           /\ response_buffer' = Without(response_buffer, out'.rn)]_vars

\* C34: every packet in the response buffer carries an ActionID header,
\* whichever loop put it there.
C34_BufferedCarryActionID ==
    \A i \in 1..Len(response_buffer) : Has(response_buffer[i].p, "ActionID")

\* C32: the read of a Follows response leaves on the connection exactly what
\* the server sent behind the blank line after the end marker, and the next
\* read returns the packet sent there, nothing of the body in it and none of
\* its headers missing.
C32_NextPacketIntact ==
    LET reads == tr_out.reads IN
    /\ Len(reads) >= 1 => reads[1].rest = NextOnWire
    /\ Len(reads) = 2 =>
            reads[2] = [err |-> "", packet |-> [Event |-> <<"Hangup">>],
                        rest |-> <<>>]

\* The last operation was a += or a -= whose try block raised
MergeFailed == (EvWas("iadd") \/ EvWas("isub")) /\ ev_out.cause # ""

\* C33: a += or -= that fails part-way lets the error of the failing
\* subscribe or unsubscribe reach the caller and leaves the subscriptions as
\* they were before the operator.
C33_MergeAllOrNothing ==
    MergeFailed =>
        /\ ev_out.err = ev_out.cause
        /\ subscriptions = ev_out.before

\* How often s holds x
Count(s, x) == Cardinality({i \in 1..Len(s) : s[i] = x})

\* The last operation was a fire that ended without error and in which a
\* handler unsubscribed itself
ChangedInFire ==
    /\ EvWas("fire")
    /\ ev_out.err = ""
    /\ In(ev_out.invoked, "once")

\* C36: when a handler unsubscribes itself during fire, every handler that
\* was subscribed to the event when the fire began and still is at its end
\* has been invoked exactly once, and the handlers invoked follow the order of
\* subscription.
C36_ReentrantUnsubscribe ==
    ChangedInFire =>
        LET began == ListOf(ev_out.before, ev_out.name)
            ended == ListOf(subscriptions, ev_out.name)
            at(h) == CHOOSE i \in 1..Len(began) : began[i] = h
        IN  /\ \A h \in Handlers :
                    (In(began, h) /\ In(ended, h)) => Count(ev_out.invoked, h) = 1
            /\ \A i \in 1..Len(ev_out.invoked) : In(began, ev_out.invoked[i])
            /\ \A i, j \in 1..Len(ev_out.invoked) :
                    i < j => at(ev_out.invoked[i]) < at(ev_out.invoked[j])

\* The step reads, in the loop of the list action in progress, an event of a
\* name the action captures whose ActionID is not the action's
OthersEventStep ==
    /\ pc = "pump"
    /\ out'.by = "pump"
    /\ out'.n = nread + 1
    /\ Has(out'.pkt, "Event")
    /\ out'.pkt["Event"] \in Captured(cur.op)
    /\ Has(out'.pkt, "ActionID")
    /\ out'.pkt["ActionID"] # cur.id

\* C37: an event of a captured name that carries the ActionID of another
\* action adds nothing to the result of the list action in progress and does
\* not end it.
C37_OnlyOwnEvents ==
    [][OthersEventStep => (agg' = agg /\ pc' = "pump" /\ ~out'.done)]_vars

\* C35: of the read_response calls of a session whose handler issues an
\* action while another action awaits its response, each one that returns
\* returns a response carrying its own ActionID, and none waits on the
\* connection while a response carrying its ActionID is in the buffer: the
\* outer call's response, read and buffered during the inner call's wait, is
\* found by the outer call when the handler returns.
C35_NestedCallsAnswered ==
    /\ \A i \in DOMAIN calls :
            calls[i].st = "returned" =>
                /\ Has(calls[i].orig, "Response")
                /\ Has(calls[i].orig, "ActionID")
                /\ calls[i].orig["ActionID"] = calls[i].id
    /\ \A i \in Waiting(calls) : \A j \in 1..Len(response_buffer) :
            ~Answers(response_buffer, j, calls[i].id)
    /\ Cardinality(Waiting(calls)) <= 1

\* Both calls have returned, the outer one with a response that arrived
\* before the inner one's, that is during the inner call's wait
C35_OuterAnsweredFirst ==
    /\ Len(calls) >= 2
    /\ calls[1].st = "returned"
    /\ calls[2].st = "returned"
    /\ calls[1].id # calls[2].id
    /\ calls[1].n < calls[2].n

====
